---------------------------- MODULE Spec2Model ----------------------------
(***************************************************************************)
(* A model of the universal agent harness: the per-agent tick engine      *)
(* (Runner in src/src/runner/index.ts), the message store it appends to   *)
(* (MessageResource in src/src/resources/messages.ts over the messages    *)
(* table of src/src/db/schema.ts) and the tool dispatch over the attached  *)
(* MCP clients; the run coordinator (run() in src/src/index.ts) that       *)
(* drives the engines of a run in single-tick or in continuous mode; and   *)
(* the runs table with deleteRun.                                          *)
(*                                                                         *)
(* The external collaborators are modelled by their outcomes: the model    *)
(* back-end may answer any turn of Answers, fail, or report any            *)
(* token estimate (fits / exceeds the context window); an MCP client may   *)
(* throw on listTools or callTool or answer with or without isError.       *)
(***************************************************************************)
EXTENDS Naturals, Sequences, FiniteSets, TLC

(***************************************************************************)
(* Bounds of the model.                                                    *)
(***************************************************************************)
\* A tick is started only while the agent's log holds fewer messages.
MaxMessages == 6

\* Agents whose engine the specification Spec drives.
EngineAgents == {0}

\* The ticks one invocation of run() may start, over all its agents.
MaxTicks == 2

\* The greatest id the specification StoreSpec gives to a row of runs.
MaxRunRows == 2

\* The entries of mcpServers the specification BuildSpec reads.
MaxServers == 2

\* The most tool_use blocks of a turn in the specification WideTurnSpec.
MaxToolUses == 9

(***************************************************************************)
(* Program constants.                                                      *)
(***************************************************************************)
\* concurrentExecutor(..., { concurrency: 8 }).
ToolConcurrency == 8

\* Attempts of withRetries around model.generate.
RetryAttempts == 2

(***************************************************************************)
(* Content blocks and messages.                                            *)
(***************************************************************************)
TextBlock == [type |-> "text"]

ThinkingBlock == [type |-> "thinking"]

ToolUse(id, name) == [type |-> "tool_use", id |-> id, name |-> name]

\* ToolResult with an id that is not the tool_use's.
ToolResultOtherId(t, content, isError) ==
    [type |-> "tool_result", toolUseId |-> t.id + 1, toolUseName |-> t.name,
     content |-> content, isError |-> isError]

ToolResult(t, content, isError) ==
    [type |-> "tool_result", toolUseId |-> t.id, toolUseName |-> t.name,
     content |-> content, isError |-> isError]

\* The MCP servers of the profile, in configuration order: the name the
\* server reports and the tools it lists.  Both servers report the same
\* name, so that "s-a" is advertised by both and "s-b" by the second only.
McpConfigs ==
    << [name |-> "s", tools |-> {"a"}],
       [name |-> "s", tools |-> {"a", "b"}] >>

\* The name under which a client's tool is offered to the model.
AdvertisedName(client, tool) == client.name \o "-" \o tool

\* tokenUsage of a model answer: undefined, or a usage record.
NoUsage == [defined |-> FALSE]

SomeUsage ==
    [defined |-> TRUE, total |-> 3, input |-> 2, output |-> 1, cached |-> 1]

\* What model.generate may answer with: an assistant turn and its tokenUsage.
Answers ==
    { [message |-> << >>, tokenUsage |-> SomeUsage],
      [message |-> << TextBlock >>, tokenUsage |-> SomeUsage],
      [message |-> << ThinkingBlock, TextBlock >>, tokenUsage |-> NoUsage],
      [message |-> << ToolUse(1, "s-b") >>, tokenUsage |-> SomeUsage],
      [message |-> << ThinkingBlock, ToolUse(1, "s-z"), ToolUse(2, "s-a") >>,
       tokenUsage |-> SomeUsage] }

\* model.cost([tokenUsage]): per-token pricing applied to the non-cached
\* input, the output and the cached tokens.
ModelCost(u) == (u.input - u.cached) * 2 + u.output * 3 + u.cached * 1

(***************************************************************************)
(* Sequence helpers.                                                       *)
(***************************************************************************)
Last(s) == s[Len(s)]

\* s.slice(from) with a 0-based index.
Slice(s, from) == IF from >= Len(s) THEN << >> ELSE SubSeq(s, from + 1, Len(s))

\* s[idx] with a 0-based index.
At(s, idx) == s[idx + 1]

RECURSIVE InsertByPosition(_, _)
InsertByPosition(sorted, row) ==
    IF sorted = << >> THEN << row >>
    ELSE IF Last(sorted).position <= row.position THEN Append(sorted, row)
    ELSE Append(InsertByPosition(SubSeq(sorted, 1, Len(sorted) - 1), row),
                Last(sorted))

\* ORDER BY position ASC (rows of equal position keep their insertion order).
RECURSIVE OrderByPosition(_)
OrderByPosition(rows) ==
    IF rows = << >> THEN << >>
    ELSE InsertByPosition(OrderByPosition(SubSeq(rows, 1, Len(rows) - 1)),
                          Last(rows))

\* The row of the runs table the engines of the model work for.
TheRun == [id |-> 1, name |-> "r", agent_count |-> 2]

\* IsAgentRow without the condition on the agent.
IsRunRow(row, a) == row.run = TheRun.id

\* eq(messages.run, run.id) and eq(messages.agent, agentIndex)
IsAgentRow(row, a) == row.run = TheRun.id /\ row.agent = a

(***************************************************************************)
(* State.                                                                  *)
(***************************************************************************)
VARIABLES
    store,          \* the messages table: its rows in insertion (id) order
    messages,       \* messages[a]: engine a's in-memory list of rows
    contextPruning, \* contextPruning[a]: the two cursor indices of engine a
    mcpClients,     \* mcpClients[a]: the clients engine a connected to
    pc,             \* pc[a]: where engine a's tick() is
    tick,           \* tick[a]: the locals and the result of engine a's
                    \* tick() in flight, kept until its next tick() starts
    rendered,       \* rendered[a]: the last slice renderForModel returned
    runs,           \* the runs table: its rows
    foreignKeys,    \* whether the connection enforces foreign keys
    called,         \* the last call of createRun, getRun or deleteRun and
                    \* the Result it returned
    settings,       \* mcpServers of the profile's settings.json
    build,          \* build[a]: where Runner.builder is for agent a
    config,         \* the RunConfig of the invocation of run()
    loop,           \* loop[a]: where run() is with agent a's runner
    tickCount,      \* tickCount of run()
    lastCost,       \* lastCost of run()
    latest,         \* latest[a]: the id of the row loop a last took as
                    \* latest (0: undefined)
    returned,       \* what run() returned
    onMessageCalls,     \* onMessageCalls[a]: the ids of the rows loop a
                        \* passed to config.onMessage
    onCostUpdateCalls   \* onCostUpdateCalls[a]: the costs loop a passed to
                        \* config.onCostUpdate

engineVars ==
    << store, messages, contextPruning, mcpClients, pc, tick, rendered >>

runVars ==
    << config, loop, tickCount, lastCost, latest, returned,
       onMessageCalls, onCostUpdateCalls >>

tableVars == << runs, foreignKeys, called >>

buildVars == << settings, build >>

vars == << engineVars, runVars, tableVars, buildVars >>

Agents == DOMAIN pc


(***************************************************************************)
(* The message store.                                                      *)
(***************************************************************************)
\* MessageResource.listMessagesByAgent: the agent's rows by position.
ListMessagesByAgent(a) ==
    OrderByPosition(SelectSeq(store, LAMBDA row : IsAgentRow(row, a)))

\* unique (run, agent, position): whether the insert of a row is accepted.
InsertAccepted(row) ==
    \A i \in DOMAIN store :
        ~(store[i].agent = row.agent /\ store[i].position = row.position)

\* CreatedRow writing to the log of agent 0 whatever the engine.
CreatedRowOfFirstAgent(a, message, position, totalTokens, cost) ==
    [id |-> Len(store) + 1, run |-> TheRun.id, agent |-> 0, position |-> position,
     role |-> message.role, content |-> message.content,
     total_tokens |-> totalTokens, cost |-> cost]

\* The row MessageResource.create inserts and returns.
CreatedRow(a, message, position, totalTokens, cost) ==
    [id |-> Len(store) + 1, run |-> TheRun.id, agent |-> a, position |-> position,
     role |-> message.role, content |-> message.content,
     total_tokens |-> totalTokens, cost |-> cost]

\* MessageResource.toJSON, without the row id.
ToJSON(row) == [role |-> row.role, content |-> row.content]

(***************************************************************************)
(* Runner: the pure parts.                                                 *)
(***************************************************************************)
\* The cursor of a new Runner.
InitialCursor == [lastAgentLoopStartIdx |-> 0, lastAgentLoopInnerStartIdx |-> 0]

\* IsNewUserMessageNeeded without the check of the last message's role.
IsNewUserMessageNeededOnEmpty(msgs) == Len(msgs) = 0

IsNewUserMessageNeeded(msgs) ==
    IF Len(msgs) = 0 THEN TRUE ELSE Last(msgs).role = "agent"

\* NewUserMessagePosition with the step after the last position doubled.
NewUserMessagePositionSkips(msgs) ==
    IF Len(msgs) > 0 THEN Last(msgs).position + 2 ELSE 0

\* The position and the message of Runner.newUserMessage.
NewUserMessagePosition(msgs) ==
    IF Len(msgs) > 0 THEN Last(msgs).position + 1 ELSE 0

NewUserMessage == [role |-> "user", content |-> << TextBlock >>]

\* IsAgentLoopStartMessage taking every user message for a loop start.
IsAgentLoopStartMessageAnyUser(m) == m.role = "user"

IsAgentLoopStartMessage(m) ==
    m.role = "user" /\ \A i \in DOMAIN m.content : m.content[i].type = "text"

IsAgentLoopInnerStartMessage(m) ==
    m.role = "agent" /\ \E i \in DOMAIN m.content : m.content[i].type = "tool_use"

\* ShiftScanStart that never skips the message after the cursor.
ShiftScanStartNext(cp) == cp.lastAgentLoopInnerStartIdx + 1

\* The index the scan of shiftContextPruning starts at.
ShiftScanStart(cp) ==
    IF cp.lastAgentLoopInnerStartIdx > cp.lastAgentLoopStartIdx
    THEN cp.lastAgentLoopInnerStartIdx + 1
    ELSE cp.lastAgentLoopInnerStartIdx + 2

\* The for loop of shiftContextPruning: the index it stops at.
RECURSIVE ShiftScan(_, _)
ShiftScan(msgs, idx) ==
    IF idx >= Len(msgs) THEN idx
    ELSE IF IsAgentLoopInnerStartMessage(ToJSON(At(msgs, idx))) THEN idx
    ELSE IF IsAgentLoopStartMessage(ToJSON(At(msgs, idx))) THEN idx
    ELSE ShiftScan(msgs, idx + 1)

\* ShiftedCursor moving the loop start at every boundary.
ShiftedCursorBoth(msgs, cp, idx) ==
    [lastAgentLoopStartIdx |-> idx, lastAgentLoopInnerStartIdx |-> idx]

\* The cursor shiftContextPruning leaves, given the index the scan stopped at.
ShiftedCursor(msgs, cp, idx) ==
    LET m == ToJSON(At(msgs, idx))
        foundNewAgenticLoop ==
            ~IsAgentLoopInnerStartMessage(m) /\ IsAgentLoopStartMessage(m)
    IN  [lastAgentLoopStartIdx |->
             IF foundNewAgenticLoop THEN idx ELSE cp.lastAgentLoopStartIdx,
         lastAgentLoopInnerStartIdx |-> idx]

\* ShiftContextPruning resetting the cursor when no boundary is left.
ShiftContextPruningResets(msgs, cp) ==
    IF ~(cp.lastAgentLoopInnerStartIdx < Len(msgs))
    THEN [status |-> "assert", cp |-> cp]
    ELSE LET idx == ShiftScan(msgs, ShiftScanStart(cp))
         IN  IF idx >= Len(msgs)
             THEN [status |-> "overflow", cp |-> InitialCursor]
             ELSE [status |-> "ok", cp |-> ShiftedCursor(msgs, cp, idx)]

\* ShiftContextPruning giving up one index early: a boundary at the last
\* message is not taken.
ShiftContextPruningGivesUpEarly(msgs, cp) ==
    IF ~(cp.lastAgentLoopInnerStartIdx < Len(msgs))
    THEN [status |-> "assert", cp |-> cp]
    ELSE LET idx == ShiftScan(msgs, ShiftScanStart(cp))
         IN  IF idx + 1 >= Len(msgs)
             THEN [status |-> "overflow", cp |-> cp]
             ELSE [status |-> "ok", cp |-> ShiftedCursor(msgs, cp, idx)]

\* shiftContextPruning: "assert" when the bounds assertion fails, "overflow"
\* when no boundary is left, else "ok" with the new cursor.
ShiftContextPruning(msgs, cp) ==
    IF ~(cp.lastAgentLoopInnerStartIdx < Len(msgs))
    THEN [status |-> "assert", cp |-> cp]
    ELSE LET idx == ShiftScan(msgs, ShiftScanStart(cp))
         IN  IF idx >= Len(msgs)
             THEN [status |-> "overflow", cp |-> cp]
             ELSE [status |-> "ok", cp |-> ShiftedCursor(msgs, cp, idx)]

\* RenderedSlice without the message at lastAgentLoopStartIdx in front.
RenderedSliceUnanchored(msgs, cp) ==
    LET tail == Slice(msgs, cp.lastAgentLoopInnerStartIdx)
    IN  [i \in DOMAIN tail |-> ToJSON(tail[i])]

\* The slice one iteration of renderForModel builds.
RenderedSlice(msgs, cp) ==
    LET tail == Slice(msgs, cp.lastAgentLoopInnerStartIdx)
        json == [i \in DOMAIN tail |-> ToJSON(tail[i])]
    IN  IF cp.lastAgentLoopInnerStartIdx > cp.lastAgentLoopStartIdx
        THEN << ToJSON(At(msgs, cp.lastAgentLoopStartIdx)) >> \o json
        ELSE json

(***************************************************************************)
(* Tool dispatch.                                                          *)
(***************************************************************************)
ExecutionErrorContent(t) ==
    [code |-> "tool_execution_error", message |-> "Error executing tool",
     tool |-> t.name]

\* NoClientContent without the name of the tool.
NoClientContentUnnamed(t) ==
    [code |-> "tool_execution_error", message |-> "No MCP client found to execute tool",
     tool |-> ""]

NoClientContent(t) ==
    [code |-> "tool_execution_error", message |-> "No MCP client found to execute tool",
     tool |-> t.name]

ProviderContent == [code |-> "provider_content"]

\* CallToolOutcomes whose catch block leaves isError unset.
CallToolOutcomesUnflagged(t, k) ==
    { [result |-> ToolResult(t, ProviderContent, FALSE),
       client |-> k, kind |-> "call_returns"],
      [result |-> ToolResult(t, ProviderContent, TRUE),
       client |-> k, kind |-> "call_returns_error"],
      [result |-> ToolResult(t, ExecutionErrorContent(t), FALSE),
       client |-> k, kind |-> "call_throws"] }

\* What callTool on a client can lead to: the result the client returns,
\* with or without isError, or the error result of the catch block.  Each
\* outcome records what happened: the client whose callTool was invoked and
\* how the invocation went.
CallToolOutcomes(t, k) ==
    { [result |-> ToolResult(t, ProviderContent, FALSE),
       client |-> k, kind |-> "call_returns"],
      [result |-> ToolResult(t, ProviderContent, TRUE),
       client |-> k, kind |-> "call_returns_error"],
      [result |-> ToolResult(t, ExecutionErrorContent(t), TRUE),
       client |-> k, kind |-> "call_throws"] }

\* Runner.executeTool from client k on: every result it can return, with the
\* index of the client at which the dispatch ended, by its listTools
\* throwing or by its callTool being invoked (0: it ended at no client).
RECURSIVE ExecuteToolFrom(_, _, _)
ExecuteToolFrom(clients, t, k) ==
    IF k > Len(clients)
    THEN { [result |-> ToolResult(t, NoClientContent(t), TRUE),
            client |-> 0, kind |-> "not_found"] }
    ELSE \* listTools of client k throws
         { [result |-> ToolResult(t, ExecutionErrorContent(t), TRUE),
            client |-> k, kind |-> "list_throws"] }
         \cup
         IF \E tool \in clients[k].tools : AdvertisedName(clients[k], tool) = t.name
         THEN CallToolOutcomes(t, k)
         ELSE ExecuteToolFrom(clients, t, k + 1)

ExecuteTool(clients, t) == ExecuteToolFrom(clients, t, 1)

\* ToolUsesOf keeping the first tool_use block only.
FirstToolUseOf(content) ==
    LET uses == SelectSeq(content, LAMBDA c : c.type = "tool_use")
    IN  IF uses = << >> THEN << >> ELSE << uses[1] >>

\* message.content.filter((content) => content.type === "tool_use")
ToolUsesOf(content) == SelectSeq(content, LAMBDA c : c.type = "tool_use")


(***************************************************************************)
(* Runner.builder / Runner.initialize.                                     *)
(***************************************************************************)
\* The clients builder can end with: createClientFromConfig fails for any
\* of the configured servers, and the others are kept in configuration order.
RECURSIVE ConnectedClients(_)
ConnectedClients(configs) ==
    IF configs = << >> THEN { << >> }
    ELSE LET rest == ConnectedClients(Tail(configs))
         IN  rest \cup { << Head(configs) >> \o r : r \in rest }

\* The locals of a tick() that has not run.
NoTick ==
    [result |-> "none", before |-> << >>, synthesized |-> FALSE,
     attempts |-> 0, roundTrips |-> 0, message |-> << >>,
     tokenUsage |-> NoUsage, toolState |-> << >>, toolResults |-> << >>,
     dispatched |-> << >>]

\* A RunConfig.  maxCost is 0 when it is undefined (or 0: the code tests
\* its truthiness); stopOn names the predicate supplied, "none" when it is
\* undefined; onMessage and onCostUpdate tell whether a callback is supplied.
NoConfig ==
    [singleTick |-> FALSE, maxCost |-> 0, stopOn |-> "none",
     onMessage |-> FALSE, onCostUpdate |-> FALSE]

\* What run() has returned while it has not.
Pending ==
    [status |-> "pending", code |-> "", hasCost |-> FALSE, cost |-> 0,
     stopped |-> FALSE]

\* Runner.builder has returned the engine.
Built == [stage |-> "built", next |-> 0, attempts |-> << >>, code |-> ""]

\* The engines of the given agents, as builder leaves them on an empty store.
EnginesBuilt(agents) ==
    /\ settings = << >>
    /\ build = [a \in agents |-> Built]
    /\ store = << >>
    /\ messages = [a \in agents |-> << >>]
    /\ contextPruning = [a \in agents |-> InitialCursor]
    /\ pc = [a \in agents |-> "idle"]
    /\ tick = [a \in agents |-> NoTick]
    /\ rendered = [a \in agents |-> << >>]

\* No invocation of run() on the given agents.
NoRunInvocation(agents) ==
    /\ config = NoConfig
    /\ loop = [a \in agents |-> "none"]
    /\ tickCount = 0
    /\ lastCost = 0
    /\ latest = [a \in agents |-> 0]
    /\ returned = Pending
    /\ onMessageCalls = [a \in agents |-> << >>]
    /\ onCostUpdateCalls = [a \in agents |-> << >>]

\* No call of the run lifecycle surface.
NoCall == [op |-> "none", name |-> "", status |-> "none", code |-> ""]

\* The runs table holds the run of the model.
RunCreated ==
    /\ runs = {TheRun}
    /\ foreignKeys = TRUE
    /\ called = NoCall

Init ==
    /\ EnginesBuilt(EngineAgents)
    /\ mcpClients \in [EngineAgents -> ConnectedClients(McpConfigs)]
    /\ NoRunInvocation(EngineAgents)
    /\ RunCreated

\* run() builds a new engine for agent a on the persisted log.
Builder(a) ==
    /\ pc[a] = "idle"
    /\ \E clients \in ConnectedClients(McpConfigs) :
           mcpClients' = [mcpClients EXCEPT ![a] = clients]
    /\ messages' = [messages EXCEPT ![a] = ListMessagesByAgent(a)]
    /\ contextPruning' = [contextPruning EXCEPT ![a] = InitialCursor]
    /\ tick' = [tick EXCEPT ![a] = NoTick]
    /\ rendered' = [rendered EXCEPT ![a] = << >>]
    /\ UNCHANGED << store, pc >>

(***************************************************************************)
(* Runner.tick, one action per step between two awaits.                    *)
(***************************************************************************)
\* tick() returns (or throws) with the given result.
Return(a, result) ==
    /\ pc' = [pc EXCEPT ![a] = "idle"]
    /\ tick' = [tick EXCEPT ![a].result = result]

\* tick() starts: this.tools() lists the tools of every client.
TickTools(a) ==
    /\ pc[a] = "idle"
    /\ Len(messages[a]) < MaxMessages
    /\ \E listed \in IF mcpClients[a] = << >> THEN {TRUE} ELSE BOOLEAN :
           LET started == [NoTick EXCEPT !.before = ListMessagesByAgent(a),
                                         !.result = "running"]
           IN  IF listed
               THEN /\ pc' = [pc EXCEPT ![a] = "synthesize"]
                    /\ tick' = [tick EXCEPT ![a] = started]
               ELSE /\ pc' = pc
                    /\ tick' = [tick EXCEPT ![a] =
                                    [started EXCEPT !.result = "tool_error"]]
    /\ UNCHANGED << store, messages, contextPruning, mcpClients, rendered >>

\* The user message of the turn, when one is needed, then the problem text.
TickUserMessage(a) ==
    /\ pc[a] = "synthesize"
    /\ LET needed == IsNewUserMessageNeeded(messages[a])
           row == CreatedRow(a, NewUserMessage,
                             NewUserMessagePosition(messages[a]), 0, 0)
       IN  IF needed /\ ~InsertAccepted(row)
           THEN /\ Return(a, "thrown")
                /\ UNCHANGED << store, messages >>
           ELSE /\ IF needed
                   THEN /\ store' = Append(store, row)
                        /\ messages' = [messages EXCEPT ![a] = Append(@, row)]
                   ELSE UNCHANGED << store, messages >>
                /\ \E problemFound \in BOOLEAN :
                       IF problemFound
                       THEN /\ pc' = [pc EXCEPT ![a] = "render"]
                            /\ tick' = [tick EXCEPT ![a].synthesized = needed]
                       ELSE /\ pc' = [pc EXCEPT ![a] = "idle"]
                            /\ tick' = [tick EXCEPT ![a].synthesized = needed,
                                                    ![a].result = "problem_not_found"]
    /\ UNCHANGED << contextPruning, mcpClients, rendered >>

\* renderForModel: model.tokens fails.
RenderTokensError(a) ==
    /\ pc[a] = "render"
    /\ Return(a, "tokens_error")
    /\ UNCHANGED << store, messages, contextPruning, mcpClients, rendered >>

\* renderForModel: the slice fits the context window and is returned.
RenderFits(a) ==
    /\ pc[a] = "render"
    /\ rendered' = [rendered EXCEPT ![a] =
                        RenderedSlice(messages[a], contextPruning[a])]
    /\ pc' = [pc EXCEPT ![a] = "generate"]
    /\ UNCHANGED << store, messages, contextPruning, mcpClients, tick >>

\* renderForModel: the slice exceeds the context window; the cursor advances,
\* or the tick ends with the overflow error.
RenderExceeds(a) ==
    /\ pc[a] = "render"
    /\ LET shift == ShiftContextPruning(messages[a], contextPruning[a])
       IN  /\ contextPruning' = [contextPruning EXCEPT ![a] = shift.cp]
           /\ IF shift.status = "ok" THEN UNCHANGED << pc, tick >>
              ELSE IF shift.status = "overflow"
              THEN Return(a, "agent_loop_overflow_error")
              ELSE Return(a, "thrown")
    /\ UNCHANGED << store, messages, mcpClients, rendered >>


\* withRetries: an attempt of model.generate fails; it is tried again while
\* the failure is transient and attempts are left, else tick() returns it.
GenerateFails(a) ==
    /\ pc[a] = "generate"
    /\ \E transient \in BOOLEAN :
           IF transient /\ tick[a].attempts + 1 < RetryAttempts
           THEN /\ tick' = [tick EXCEPT ![a].attempts = @ + 1]
                /\ pc' = pc
           ELSE /\ tick' = [tick EXCEPT ![a].attempts = @ + 1,
                                        ![a].result = "model_error"]
                /\ pc' = [pc EXCEPT ![a] = "idle"]
    /\ UNCHANGED << store, messages, contextPruning, mcpClients, rendered >>

\* The result slot of a tool invocation that has not returned, and the
\* record of what its dispatch did.
NoResult == [type |-> "pending"]

NoDispatch == [client |-> 0, kind |-> "pending"]

\* IsEmptyTurn that takes no turn for empty.
IsEmptyTurnNever(message) == FALSE

\* if (message.content.length === 0)
IsEmptyTurn(message) == Len(message) = 0

\* model.generate answers: an empty turn ends the tick, any other turn starts
\* the concurrent execution of its tool_use blocks.
GenerateAnswers(a) ==
    /\ pc[a] = "generate"
    /\ \E answer \in Answers :
           LET message == answer.message
               tokenUsage == answer.tokenUsage
               n == Len(ToolUsesOf(message))
               answered ==
                   [tick[a] EXCEPT !.attempts = @ + 1,
                                   !.roundTrips = @ + 1,
                                   !.message = message,
                                   !.tokenUsage = tokenUsage,
                                   !.toolState = [i \in 1..n |-> "waiting"],
                                   !.toolResults = [i \in 1..n |-> NoResult],
                                   !.dispatched = [i \in 1..n |-> NoDispatch]]
           IN  IF IsEmptyTurn(message)
               THEN /\ tick' = [tick EXCEPT ![a] =
                                    [answered EXCEPT !.result = "ok_empty"]]
                    /\ pc' = [pc EXCEPT ![a] = "idle"]
               ELSE /\ tick' = [tick EXCEPT ![a] = answered]
                    /\ pc' = [pc EXCEPT ![a] =
                                  IF n = 0 THEN "persist" ELSE "tools"]
    /\ UNCHANGED << store, messages, contextPruning, mcpClients, rendered >>

\* The number of tool invocations in flight.
InFlight(a) ==
    Cardinality({i \in DOMAIN tick[a].toolState : tick[a].toolState[i] = "running"})

\* ToolStart without the limit on the invocations in flight.
ToolStartUnlimited(a) ==
    /\ pc[a] = "tools"
    /\ \E i \in DOMAIN tick[a].toolState :
           /\ tick[a].toolState[i] = "waiting"
           /\ \A j \in 1..(i - 1) : tick[a].toolState[j] # "waiting"
           /\ tick' = [tick EXCEPT ![a].toolState[i] = "running"]
    /\ UNCHANGED << store, messages, contextPruning, mcpClients, pc, rendered >>

\* concurrentExecutor takes the next tool_use of the queue.
ToolStart(a) ==
    /\ pc[a] = "tools"
    /\ InFlight(a) < ToolConcurrency
    /\ \E i \in DOMAIN tick[a].toolState :
           /\ tick[a].toolState[i] = "waiting"
           /\ \A j \in 1..(i - 1) : tick[a].toolState[j] # "waiting"
           /\ tick' = [tick EXCEPT ![a].toolState[i] = "running"]
    /\ UNCHANGED << store, messages, contextPruning, mcpClients, pc, rendered >>

\* ToolFinish with the executor returning at the first result.
ToolFinishEarly(a) ==
    /\ pc[a] = "tools"
    /\ \E i \in DOMAIN tick[a].toolState :
           /\ tick[a].toolState[i] = "running"
           /\ \E out \in ExecuteTool(mcpClients[a], ToolUsesOf(tick[a].message)[i]) :
                  tick' = [tick EXCEPT ![a].toolState[i] = "done",
                                       ![a].toolResults[i] = out.result,
                                       ![a].dispatched[i] =
                                           [client |-> out.client, kind |-> out.kind]]
           /\ pc' = [pc EXCEPT ![a] = "persist"]
    /\ UNCHANGED << store, messages, contextPruning, mcpClients, rendered >>

\* An invocation of executeTool returns; the executor returns the results,
\* in the order of the tool_use blocks, once all have.
ToolFinish(a) ==
    /\ pc[a] = "tools"
    /\ \E i \in DOMAIN tick[a].toolState :
           /\ tick[a].toolState[i] = "running"
           /\ \E out \in ExecuteTool(mcpClients[a], ToolUsesOf(tick[a].message)[i]) :
                  tick' = [tick EXCEPT ![a].toolState[i] = "done",
                                       ![a].toolResults[i] = out.result,
                                       ![a].dispatched[i] =
                                           [client |-> out.client, kind |-> out.kind]]
           /\ pc' = [pc EXCEPT ![a] =
                         IF \A j \in DOMAIN tick[a].toolState :
                                j # i => tick[a].toolState[j] = "done"
                         THEN "persist" ELSE "tools"]
    /\ UNCHANGED << store, messages, contextPruning, mcpClients, rendered >>

\* The row of the assistant message: position last + 1, the tokens and the
\* cost of the answer.
AgentMessageRow(a) ==
    LET last == Last(messages[a])
        u == tick[a].tokenUsage
    IN  CreatedRow(a, [role |-> "agent", content |-> tick[a].message],
                   last.position + 1,
                   IF u.defined THEN u.total ELSE 0,
                   IF u.defined THEN ModelCost(u) ELSE 0)

\* HasToolResults with >= for >.
HasToolResultsAlways(toolResults) == Len(toolResults) >= 0

\* if (toolResults.length > 0)
HasToolResults(toolResults) == Len(toolResults) > 0

\* The assistant message is persisted and cached.
PersistAgentMessage(a) ==
    /\ pc[a] = "persist"
    /\ LET row == AgentMessageRow(a)
       IN  IF ~InsertAccepted(row)
           THEN /\ Return(a, "thrown")
                /\ UNCHANGED << store, messages >>
           ELSE /\ store' = Append(store, row)
                /\ messages' = [messages EXCEPT ![a] = Append(@, row)]
                /\ IF HasToolResults(tick[a].toolResults)
                   THEN /\ pc' = [pc EXCEPT ![a] = "persist_results"]
                        /\ tick' = tick
                   ELSE Return(a, "ok")
    /\ UNCHANGED << contextPruning, mcpClients, rendered >>

\* The row of the tool results: position last + 2, where last is the message
\* that was last before the assistant message.
ToolResultsRow(a) ==
    LET last == messages[a][Len(messages[a]) - 1]
    IN  CreatedRow(a, [role |-> "user", content |-> tick[a].toolResults],
                   last.position + 2, 0, 0)

\* The tool results are persisted and cached, and tick() returns.
PersistToolResults(a) ==
    /\ pc[a] = "persist_results"
    /\ LET row == ToolResultsRow(a)
       IN  IF ~InsertAccepted(row)
           THEN /\ Return(a, "thrown")
                /\ UNCHANGED << store, messages >>
           ELSE /\ store' = Append(store, row)
                /\ messages' = [messages EXCEPT ![a] = Append(@, row)]
                /\ Return(a, "ok")
    /\ UNCHANGED << contextPruning, mcpClients, rendered >>

\* A step of the engines alone.
EngineOnly == UNCHANGED << runVars, tableVars, buildVars >>

Next ==
    \/ \E a \in Agents : Builder(a) /\ EngineOnly
    \/ \E a \in Agents : TickTools(a) /\ EngineOnly
    \/ \E a \in Agents : TickUserMessage(a) /\ EngineOnly
    \/ \E a \in Agents : RenderTokensError(a) /\ EngineOnly
    \/ \E a \in Agents : RenderFits(a) /\ EngineOnly
    \/ \E a \in Agents : RenderExceeds(a) /\ EngineOnly
    \/ \E a \in Agents : GenerateFails(a) /\ EngineOnly
    \/ \E a \in Agents : GenerateAnswers(a) /\ EngineOnly
    \/ \E a \in Agents : ToolStart(a) /\ EngineOnly
    \/ \E a \in Agents : ToolFinish(a) /\ EngineOnly
    \/ \E a \in Agents : PersistAgentMessage(a) /\ EngineOnly
    \/ \E a \in Agents : PersistToolResults(a) /\ EngineOnly

Spec == Init /\ [][Next]_vars


(***************************************************************************)
(* run(): the coordinator.                                                 *)
(***************************************************************************)
\* for (let i = 0; i < runData.agent_count; i++) agentIndices.push(i)
AgentIndices(run) == 0..(run.agent_count - 1)

\* ORDER BY position ASC over the rows of several agents: the k-th row is
\* the one with k rows at or before it (rows of equal position keep their
\* insertion order).
RowsByPosition(rows) ==
    LET n == Len(rows)
        rank(i) ==
            Cardinality({j \in 1..n :
                \/ rows[j].position < rows[i].position
                \/ rows[j].position = rows[i].position /\ j <= i})
    IN  [k \in 1..n |-> rows[CHOOSE i \in 1..n : rank(i) = k]]

\* MessageResource.listMessagesByRun: the rows of the run, of all its
\* agents, by position.
ListMessagesByRun(run) ==
    RowsByPosition(SelectSeq(store, LAMBDA row : row.run = run.id))

RECURSIVE SumCost(_)
SumCost(rows) ==
    IF rows = << >> THEN 0 ELSE Head(rows).cost + SumCost(Tail(rows))

\* TotalCostForRun over the rows of the run's first agent only.
TotalCostOfFirstAgent(run) ==
    SumCost(SelectSeq(store, LAMBDA row : row.run = run.id /\ row.agent = 0))

\* MessageResource.totalCostForRun: sum(messages.cost) over the run's rows.
TotalCostForRun(run) ==
    SumCost(SelectSeq(store, LAMBDA row : row.run = run.id))

\* msgs[msgs.length - 1], as the id of the row (0: undefined).
LatestOf(msgs) == IF msgs = << >> THEN 0 ELSE Last(msgs).id

\* The predicates a caller supplies as config.stopOn: "final" is true of an
\* agent message without tool_use, "agent" of every agent message.
StopOn(kind, m) ==
    CASE kind = "final" ->
             /\ m.role = "agent"
             /\ \A i \in DOMAIN m.content : m.content[i].type # "tool_use"
      [] kind = "agent" -> m.role = "agent"
      [] OTHER -> FALSE

\* The configurations run() is invoked with.
RunConfigs ==
    { [singleTick |-> TRUE, maxCost |-> 0, stopOn |-> "none",
       onMessage |-> TRUE, onCostUpdate |-> FALSE],
      [singleTick |-> TRUE, maxCost |-> 0, stopOn |-> "final",
       onMessage |-> TRUE, onCostUpdate |-> FALSE],
      [singleTick |-> FALSE, maxCost |-> 5, stopOn |-> "none",
       onMessage |-> TRUE, onCostUpdate |-> TRUE],
      [singleTick |-> FALSE, maxCost |-> 0, stopOn |-> "final",
       onMessage |-> TRUE, onCostUpdate |-> TRUE] }

\* if (config.onCostUpdate || config.maxCost)
CostIsFollowed(c) == c.onCostUpdate \/ c.maxCost # 0

\* CostExceeded against twice the ceiling.
CostExceededTwice(c, cost) == c.maxCost # 0 /\ cost > 2 * c.maxCost

\* if (config.maxCost && lastCost > config.maxCost)
CostExceeded(c, cost) == c.maxCost # 0 /\ cost > c.maxCost

\* tick.isErr() of the Result the tick of agent a returned.
TickIsErr(a) == tick[a].result \notin {"ok", "ok_empty"}

\* The positions of loop at which the loop of an agent has terminated: its
\* tick returned an error, its tick threw, stopOn returned true, or the cost
\* was above the ceiling.
LoopDone == {"error", "thrown", "stopped", "ceiling"}

\* Ticks that were started by run(): those counted and those in flight.
TicksStarted == tickCount + Cardinality({b \in Agents : loop[b] = "tick"})

\* run() was invoked on TheRun: the runners of all its agents are built, the
\* cost of the run is read and tick() is called on every runner.
RunInit ==
    /\ EnginesBuilt(AgentIndices(TheRun))
    /\ mcpClients = [a \in AgentIndices(TheRun) |-> << >>]
    /\ config \in RunConfigs
    /\ loop = [a \in AgentIndices(TheRun) |-> "start"]
    /\ tickCount = 0
    /\ lastCost = 0
    /\ latest = [a \in AgentIndices(TheRun) |-> 0]
    /\ returned = Pending
    /\ onMessageCalls = [a \in AgentIndices(TheRun) |-> << >>]
    /\ onCostUpdateCalls = [a \in AgentIndices(TheRun) |-> << >>]
    /\ RunCreated

\* A step of the tick of a runner: nothing of run() changes.
InsideTick == UNCHANGED << runVars, tableVars, buildVars >>

\* The turns the model back-end answers with during run(): the empty turn, a
\* text and a tool_use.
RunTurns == { << >>, << TextBlock >>, << ToolUse(1, "s-b") >> }

\* runner.tick() is called and its first step runs.
RunTick(a) ==
    /\ loop[a] = "start"
    /\ TicksStarted < MaxTicks
    /\ TickTools(a)
    /\ loop' = [loop EXCEPT ![a] = "tick"]
    /\ UNCHANGED << config, tickCount, lastCost, latest, returned,
                    onMessageCalls, onCostUpdateCalls, tableVars, buildVars >>

\* What run() returns: the error of a tick, ok(undefined), ok({ cost }) or
\* ok({ cost, stopped: true }); "thrown" when the promise of run() rejects.
ErrOf(code) == [Pending EXCEPT !.status = "err", !.code = code]

OkVoid == [Pending EXCEPT !.status = "ok"]

OkCost(cost, stopped) ==
    [Pending EXCEPT !.status = "ok", !.hasCost = TRUE, !.cost = cost,
                    !.stopped = stopped]

Thrown == [Pending EXCEPT !.status = "thrown"]

\* Whether config.stopOn is supplied and returns true of the row of the id.
StopOnReturnsTrue(c, id) ==
    /\ id # 0
    /\ c.stopOn # "none"
    /\ StopOn(c.stopOn, ToJSON(store[id]))

\* LoopReturns settling the promises of all the runners.
LoopReturnsAll(a, how) == [b \in DOMAIN loop |-> how]

\* The async function of runner a returns (or throws): its promise settles.
LoopReturns(a, how) == [loop EXCEPT ![a] = how]

\* Continuous mode: the tick of agent a has returned.  On an error the loop
\* returns it; else the latest message of the run is looked up and handed to
\* onMessage and stopOn, and the cost query is issued or the next tick called.
LoopLatest(a) ==
    /\ ~config.singleTick
    /\ loop[a] = "tick"
    /\ pc[a] = "idle"
    /\ IF tick[a].result = "thrown"
       THEN /\ loop' = LoopReturns(a, "thrown")
            /\ returned' = IF returned = Pending THEN Thrown ELSE returned
            /\ UNCHANGED << tickCount, latest, onMessageCalls >>
       ELSE IF TickIsErr(a)
       THEN /\ loop' = LoopReturns(a, "error")
            /\ tickCount' = tickCount + 1
            /\ UNCHANGED << returned, latest, onMessageCalls >>
       ELSE /\ tickCount' = tickCount + 1
            /\ latest' = [latest EXCEPT ![a] =
                              LatestOf(ListMessagesByRun(TheRun))]
            /\ onMessageCalls' =
                   IF latest'[a] # 0 /\ config.onMessage
                   THEN [onMessageCalls EXCEPT ![a] = Append(@, latest'[a])]
                   ELSE onMessageCalls
            /\ loop' = IF StopOnReturnsTrue(config, latest'[a])
                       THEN LoopReturns(a, "stopped")
                       ELSE [loop EXCEPT ![a] =
                                 IF CostIsFollowed(config) THEN "cost"
                                 ELSE "start"]
            /\ UNCHANGED returned
    /\ UNCHANGED << config, lastCost, onCostUpdateCalls, engineVars,
                    tableVars, buildVars >>

\* The loop of agent a reads the cost of the run, calls onCostUpdate with
\* it, and returns above the ceiling or calls the next tick.  The query of
\* the store does not suspend the loop (persistence is synchronous relative
\* to the owning task), so the cost is the one persisted at this step.
LoopCost(a) ==
    /\ loop[a] = "cost"
    /\ lastCost' = TotalCostForRun(TheRun)
    /\ onCostUpdateCalls' =
           IF config.onCostUpdate
           THEN [onCostUpdateCalls EXCEPT ![a] = Append(@, lastCost')]
           ELSE onCostUpdateCalls
    /\ loop' = IF CostExceeded(config, lastCost')
               THEN LoopReturns(a, "ceiling")
               ELSE [loop EXCEPT ![a] = "start"]
    /\ UNCHANGED << config, tickCount, latest, returned, onMessageCalls,
                    engineVars, tableVars, buildVars >>

\* Continuous mode: Promise.all(runnerPromises) resolves, run() returns.
ContinuousReturn ==
    /\ ~config.singleTick
    /\ returned = Pending
    /\ \A a \in Agents : loop[a] \in LoopDone
    /\ returned' = OkVoid
    /\ UNCHANGED << config, loop, tickCount, lastCost, latest,
                    onMessageCalls, onCostUpdateCalls, engineVars, tableVars, buildVars >>

\* Single-tick mode: Promise.all of the ticks settles, run() returns the
\* first error in the order of the runners, or the cost of the run, with
\* stopped when stopOn returns true of the last of the run's messages.
SingleTickReturn ==
    /\ config.singleTick
    /\ returned = Pending
    /\ IF \E a \in Agents :
              loop[a] = "tick" /\ pc[a] = "idle" /\ tick[a].result = "thrown"
       THEN returned' = Thrown
       ELSE /\ \A a \in Agents : loop[a] = "tick" /\ pc[a] = "idle"
            /\ IF \E a \in Agents : TickIsErr(a)
               THEN LET first == CHOOSE a \in Agents :
                                     /\ TickIsErr(a)
                                     /\ \A b \in Agents : TickIsErr(b) => a <= b
                    IN  returned' = ErrOf(tick[first].result)
               ELSE returned' =
                        OkCost(TotalCostForRun(TheRun),
                               StopOnReturnsTrue(
                                   config, LatestOf(ListMessagesByRun(TheRun))))
    /\ UNCHANGED << config, loop, tickCount, lastCost, latest,
                    onMessageCalls, onCostUpdateCalls, engineVars, tableVars, buildVars >>

RunNext ==
    \/ \E a \in Agents : RunTick(a)
    \/ \E a \in Agents : TickUserMessage(a) /\ InsideTick
    \/ \E a \in Agents : RenderFits(a) /\ InsideTick
    \/ \E a \in Agents : GenerateFails(a) /\ InsideTick
    \/ \E a \in Agents :
           GenerateAnswers(a) /\ tick'[a].message \in RunTurns /\ InsideTick
    \/ \E a \in Agents : ToolStart(a) /\ InsideTick
    \/ \E a \in Agents : ToolFinish(a) /\ InsideTick
    \/ \E a \in Agents : PersistAgentMessage(a) /\ InsideTick
    \/ \E a \in Agents : PersistToolResults(a) /\ InsideTick
    \/ \E a \in Agents : LoopLatest(a)
    \/ \E a \in Agents : LoopCost(a)
    \/ ContinuousReturn
    \/ SingleTickReturn

RunSpec == RunInit /\ [][RunNext]_vars

\* run() where every tick in flight completes and every loop goes on: no
\* model call, tool call or store operation is outstanding for ever.
RunFairSpec == RunSpec /\ WF_vars(RunNext)

(***************************************************************************)
(* run() on a run that has been run before, with a model whose token       *)
(* estimate may fail or exceed the context window, so that the cursors of  *)
(* the engines advance.                                                    *)
(***************************************************************************)
\* The rows an earlier single tick on each agent of the run has persisted:
\* the synthesized user message and a text turn.
EarlierRows ==
    << [id |-> 1, run |-> TheRun.id, agent |-> 0, position |-> 0,
        role |-> "user", content |-> << TextBlock >>,
        total_tokens |-> 0, cost |-> 0],
       [id |-> 2, run |-> TheRun.id, agent |-> 1, position |-> 0,
        role |-> "user", content |-> << TextBlock >>,
        total_tokens |-> 0, cost |-> 0],
       [id |-> 3, run |-> TheRun.id, agent |-> 0, position |-> 1,
        role |-> "agent", content |-> << TextBlock >>,
        total_tokens |-> SomeUsage.total, cost |-> ModelCost(SomeUsage)],
       [id |-> 4, run |-> TheRun.id, agent |-> 1, position |-> 1,
        role |-> "agent", content |-> << TextBlock >>,
        total_tokens |-> SomeUsage.total, cost |-> ModelCost(SomeUsage)] >>

\* run() has built the engines of the run on the earlier rows: each engine
\* has read the log of its agent (Runner.initialize).
WindowInit ==
    /\ store = EarlierRows
    /\ messages = [a \in AgentIndices(TheRun) |-> ListMessagesByAgent(a)]
    /\ contextPruning = [a \in AgentIndices(TheRun) |-> InitialCursor]
    /\ pc = [a \in AgentIndices(TheRun) |-> "idle"]
    /\ tick = [a \in AgentIndices(TheRun) |-> NoTick]
    /\ rendered = [a \in AgentIndices(TheRun) |-> << >>]
    /\ mcpClients = [a \in AgentIndices(TheRun) |-> << >>]
    /\ settings = << >>
    /\ build = [a \in AgentIndices(TheRun) |-> Built]
    /\ config \in RunConfigs
    /\ loop = [a \in AgentIndices(TheRun) |-> "start"]
    /\ tickCount = 0
    /\ lastCost = 0
    /\ latest = [a \in AgentIndices(TheRun) |-> 0]
    /\ returned = Pending
    /\ onMessageCalls = [a \in AgentIndices(TheRun) |-> << >>]
    /\ onCostUpdateCalls = [a \in AgentIndices(TheRun) |-> << >>]
    /\ RunCreated

WindowNext ==
    \/ RunNext
    \/ \E a \in Agents : RenderTokensError(a) /\ InsideTick
    \/ \E a \in Agents : RenderExceeds(a) /\ InsideTick

WindowSpec == WindowInit /\ [][WindowNext]_vars

(***************************************************************************)
(* run() over a store whose insert can fail (the database is locked, the   *)
(* disk is full, a constraint is violated).                                *)
(***************************************************************************)
\* MessageResource.create throws: the insert of the user message, of the
\* agent message or of the tool results fails; tick() awaits it outside any
\* try block and rejects.
MessageCreateThrows(a) ==
    /\ \/ pc[a] = "synthesize" /\ IsNewUserMessageNeeded(messages[a])
       \/ pc[a] = "persist"
       \/ pc[a] = "persist_results"
    /\ Return(a, "thrown")
    /\ UNCHANGED << store, messages, contextPruning, mcpClients, rendered >>

FaultNext ==
    \/ RunNext
    \/ \E a \in Agents : MessageCreateThrows(a) /\ InsideTick

FaultSpec == RunInit /\ [][FaultNext]_vars

(***************************************************************************)
(* run(): the engines are built (Runner.builder over loadProfileMCPConfig  *)
(* and createClientFromConfig), then the first ticks start.                *)
(***************************************************************************)
\* An entry of mcpServers: name is "" when the field is missing, command and
\* url tell whether the field is present, tools is what the server lists.
ServerEntry(name, transport, command, url, enabled) ==
    [name |-> name, transport |-> transport, command |-> command,
     url |-> url, enabled |-> enabled, tools |-> {"a"}]

ServerEntries ==
    { ServerEntry("s", "stdio", TRUE, FALSE, TRUE),
      ServerEntry("t", "sse", FALSE, TRUE, TRUE),
      ServerEntry("", "stdio", TRUE, FALSE, TRUE),
      ServerEntry("s", "stdio", FALSE, FALSE, TRUE),
      ServerEntry("t", "sse", FALSE, FALSE, TRUE),
      ServerEntry("h", "http", FALSE, TRUE, TRUE),
      ServerEntry("", "stdio", FALSE, FALSE, FALSE) }

\* The validation of loadProfileMCPConfig: !server.name, stdio without
\* command, sse without url.
InvalidServer(server) ==
    \/ server.name = ""
    \/ server.transport = "stdio" /\ ~server.command
    \/ server.transport = "sse" /\ ~server.url

\* loadProfileMCPConfig: the enabled servers, or invalid_config_error when
\* one of them is invalid.
LoadProfileMCPConfig(entries) ==
    LET servers == SelectSeq(entries, LAMBDA server : server.enabled)
    IN  IF \E k \in DOMAIN servers : InvalidServer(servers[k])
        THEN [status |-> "err", code |-> "invalid_config_error", servers |-> << >>]
        ELSE [status |-> "ok", code |-> "", servers |-> servers]

\* createClientFromConfig: what it can return for a server, and whether
\* client.connect was invoked.
CreateClientFromConfig(server) ==
    LET client == [name |-> server.name, tools |-> server.tools]
        refused == {[status |-> "err", code |-> "mcp_config_error",
                     attempted |-> FALSE, client |-> client]}
        connects == {[status |-> "ok", code |-> "",
                      attempted |-> TRUE, client |-> client],
                     [status |-> "err", code |-> "mcp_connection_error",
                      attempted |-> TRUE, client |-> client]}
    IN  IF server.transport = "stdio"
        THEN IF ~server.command THEN refused ELSE connects
        ELSE IF server.transport = "sse"
        THEN IF ~server.url THEN refused ELSE connects
        ELSE refused

\* Runner.builder has been called and has not read the profile.
Building == [stage |-> "load", next |-> 0, attempts |-> << >>, code |-> ""]

\* run() has found the run and calls Runner.builder for each of its agents,
\* on an empty store.
BuildInit ==
    /\ settings \in UNION {[1..n -> ServerEntries] : n \in 0..MaxServers}
    /\ build = [a \in AgentIndices(TheRun) |-> Building]
    /\ store = << >>
    /\ messages = [a \in AgentIndices(TheRun) |-> << >>]
    /\ contextPruning = [a \in AgentIndices(TheRun) |-> InitialCursor]
    /\ pc = [a \in AgentIndices(TheRun) |-> "idle"]
    /\ tick = [a \in AgentIndices(TheRun) |-> NoTick]
    /\ rendered = [a \in AgentIndices(TheRun) |-> << >>]
    /\ mcpClients = [a \in AgentIndices(TheRun) |-> << >>]
    /\ NoRunInvocation(AgentIndices(TheRun))
    /\ RunCreated

\* builder reads the profile: the error is returned, or the loop over the
\* servers starts.
BuilderLoad(a) ==
    /\ build[a].stage = "load"
    /\ LET loaded == LoadProfileMCPConfig(settings)
       IN  build' = [build EXCEPT ![a] =
               IF loaded.status = "err"
               THEN [@ EXCEPT !.stage = "failed", !.code = loaded.code]
               ELSE [@ EXCEPT !.stage = "connect", !.next = 1]]
    /\ UNCHANGED << settings, engineVars, runVars, tableVars >>

\* builder's loop: createClientFromConfig for the next server; the client
\* is pushed, or the server is skipped with a warning.
BuilderConnect(a) ==
    /\ build[a].stage = "connect"
    /\ LET servers == LoadProfileMCPConfig(settings).servers
           k == build[a].next
       IN  /\ k <= Len(servers)
           /\ \E out \in CreateClientFromConfig(servers[k]) :
                  /\ build' = [build EXCEPT
                         ![a].next = k + 1,
                         ![a].attempts = IF out.attempted
                                         THEN Append(@, servers[k].name)
                                         ELSE @]
                  /\ mcpClients' = [mcpClients EXCEPT ![a] =
                         IF out.status = "ok" THEN Append(@, out.client) ELSE @]
    /\ UNCHANGED << settings, store, messages, contextPruning, pc, tick,
                    rendered, runVars, tableVars >>

\* Runner.initialize: the engine reads the log of its agent.
BuilderInitialize(a) ==
    /\ build[a].stage = "connect"
    /\ build[a].next > Len(LoadProfileMCPConfig(settings).servers)
    /\ messages' = [messages EXCEPT ![a] = ListMessagesByAgent(a)]
    /\ build' = [build EXCEPT ![a].stage = "built"]
    /\ UNCHANGED << settings, store, contextPruning, mcpClients, pc, tick,
                    rendered, runVars, tableVars >>

\* Promise.all of the builders has settled: run() returns the first error,
\* or goes on to the ticks of its runners.
RunBuilt ==
    /\ returned = Pending
    /\ \A a \in Agents : loop[a] = "none"
    /\ \A a \in Agents : build[a].stage \in {"built", "failed"}
    /\ IF \E a \in Agents : build[a].stage = "failed"
       THEN LET a == CHOOSE b \in Agents :
                         /\ build[b].stage = "failed"
                         /\ \A c \in Agents : build[c].stage = "failed" => b <= c
            IN  /\ returned' = ErrOf(build[a].code)
                /\ UNCHANGED << config, loop >>
       ELSE /\ \E c \in RunConfigs : config' = c
            /\ loop' = [a \in Agents |-> "start"]
            /\ returned' = returned
    /\ UNCHANGED << tickCount, lastCost, latest, onMessageCalls,
                    onCostUpdateCalls, engineVars, tableVars, buildVars >>

BuildNext ==
    \/ \E a \in Agents : BuilderLoad(a)
    \/ \E a \in Agents : BuilderConnect(a)
    \/ \E a \in Agents : BuilderInitialize(a)
    \/ RunBuilt
    \/ \E a \in Agents : RunTick(a)

BuildSpec == BuildInit /\ [][BuildNext]_vars

(***************************************************************************)
(* The runs table and the run lifecycle surface (src/index.ts,             *)
(* src/resources/run.ts, src/db/schema.ts).  messages.run references       *)
(* runs.id with no ON DELETE action; whether the connection enforces       *)
(* foreign keys is a setting of the build, held in foreignKeys.            *)
(***************************************************************************)
RunNames == {"r", "s"}

\* RunResource.findByName: the rows of that name (runs.name is unique).
FindByName(name) == {row \in runs : row.name = name}

\* The id of an inserted row: an integer primary key takes the greatest id
\* of the table plus one.
NewRunId ==
    IF runs = {} THEN 1
    ELSE (CHOOSE row \in runs : \A q \in runs : q.id <= row.id).id + 1

\* The messages that reference the run.
MessagesOfRun(row) == SelectSeq(store, LAMBDA m : m.run = row.id)

\* A call of the run lifecycle surface that returned (or threw).
Called(op, name, status, code) ==
    [op |-> op, name |-> name, status |-> status, code |-> code]

\* No engine is built and run() is not invoked; the tables are empty.
StoreInit ==
    /\ EnginesBuilt({})
    /\ mcpClients = << >>
    /\ NoRunInvocation({})
    /\ runs = {}
    /\ foreignKeys \in BOOLEAN
    /\ called = NoCall

\* NameTaken with no unique constraint on runs.name.
NameTakenNever(name) == FALSE

\* unique().on(t.name): the insert of a row whose name is taken throws.
NameTaken(name) == FindByName(name) # {}

\* createRun: inserts the row and returns it; when the insert throws (the
\* name is taken) the catch block returns resource_creation_error, the
\* tables unchanged.
CreateRun(name) ==
    /\ IF NameTaken(name)
       THEN /\ called' = Called("createRun", name, "err", "resource_creation_error")
            /\ runs' = runs
       ELSE /\ NewRunId <= MaxRunRows
            /\ called' = Called("createRun", name, "ok", "")
            /\ runs' = runs \cup {[id |-> NewRunId, name |-> name,
                                    agent_count |-> 1]}
    /\ UNCHANGED << foreignKeys, engineVars, runVars, buildVars >>

\* getRun: the Result of RunResource.findByName.
GetRun(name) ==
    /\ called' = IF FindByName(name) = {}
                 THEN Called("getRun", name, "err", "not_found_error")
                 ELSE Called("getRun", name, "ok", "")
    /\ UNCHANGED << runs, foreignKeys, engineVars, runVars, buildVars >>

\* MessageResource.create for an agent of a run, at the next position of
\* the agent's log.
CreateMessage(row, a) ==
    /\ row \in runs
    /\ a \in 0..(row.agent_count - 1)
    /\ Len(store) < MaxMessages
    /\ store' = Append(store,
           [id |-> Len(store) + 1, run |-> row.id, agent |-> a,
            position |-> Len(SelectSeq(MessagesOfRun(row),
                                       LAMBDA m : m.agent = a)),
            role |-> "user", content |-> << TextBlock >>,
            total_tokens |-> 0, cost |-> 0])
    /\ UNCHANGED << messages, contextPruning, mcpClients, pc, tick, rendered,
                    runVars, tableVars, buildVars >>

\* deleteRun: an unknown name returns the error of findByName; otherwise
\* the row of runs is deleted (RunResource.delete) and success returned.
\* No statement touches the messages table.  With foreign keys enforced
\* the deletion fails while a message references the row, and deleteRun
\* rejects: the tables are unchanged.
DeleteRun(name) ==
    /\ IF FindByName(name) = {}
       THEN /\ called' = Called("deleteRun", name, "err", "not_found_error")
            /\ runs' = runs
       ELSE \E row \in FindByName(name) :
               IF foreignKeys /\ MessagesOfRun(row) # << >>
               THEN /\ called' = Called("deleteRun", name, "thrown", "")
                    /\ runs' = runs
               ELSE /\ called' = Called("deleteRun", name, "ok", "")
                    /\ runs' = runs \ {row}
    /\ UNCHANGED << foreignKeys, engineVars, runVars, buildVars >>

StoreNext ==
    \/ \E name \in RunNames : CreateRun(name)
    \/ \E name \in RunNames : GetRun(name)
    \/ \E row \in runs : \E a \in 0..1 : CreateMessage(row, a)
    \/ \E name \in RunNames : DeleteRun(name)

StoreSpec == StoreInit /\ [][StoreNext]_vars

(***************************************************************************)
(* Vocabulary of the properties.                                           *)
(***************************************************************************)
\* The persisted log of an agent, in position order.
PersistedLog(a) == ListMessagesByAgent(a)

\* The messages the tick of agent a (in flight, or the last one) appended.
AppendedByTick(a) ==
    SubSeq(PersistedLog(a), Len(tick[a].before) + 1, Len(PersistedLog(a)))

\* The blocks of the given type in a content.
BlocksOfType(content, type) == SelectSeq(content, LAMBDA c : c.type = type)

IsTextOnlyUser(m) ==
    m.role = "user" /\ BlocksOfType(m.content, "text") = m.content

HasToolUse(m) == m.role = "agent" /\ BlocksOfType(m.content, "tool_use") # << >>

\* Whether the log before the tick asked for a synthetic user message.
NeededBefore(a) ==
    tick[a].before = << >> \/ Last(tick[a].before).role = "agent"

(***************************************************************************)
(* C1  Position density: whatever ticks ran on an agent's engine (failed   *)
(* at tool listing, at rendering or at inference, ended on an empty        *)
(* response, retried), the positions of the agent's persisted messages     *)
(* are exactly 0..N-1, each taken once.                                    *)
(***************************************************************************)
PositionDensity ==
    \A a \in Agents :
        LET rows == SelectSeq(store, LAMBDA row : row.agent = a)
        IN  /\ {rows[i].position : i \in DOMAIN rows} = 0..(Len(rows) - 1)
            /\ \A i, j \in DOMAIN rows :
                   rows[i].position = rows[j].position => i = j

\* A tick succeeded on a log whose last tick had failed after its user
\* message was written, and an earlier tick had succeeded before that.
PositionDensityWitness ==
    \E a \in Agents :
        /\ pc[a] = "idle"
        /\ tick[a].result = "ok"
        /\ Len(tick[a].before) >= 3
        /\ IsTextOnlyUser(Last(tick[a].before))
        /\ Len(PersistedLog(a)) > Len(tick[a].before)

(***************************************************************************)
(* C2  Validity preservation: every slice renderForModel returns starts    *)
(* with a text-only user message, and each of its tool_result blocks has   *)
(* a tool_use block of the same id in an earlier message of the slice.     *)
(***************************************************************************)
ValidSlice(slice) ==
    /\ slice # << >>
    /\ IsTextOnlyUser(slice[1])
    /\ \A i \in DOMAIN slice : \A r \in DOMAIN slice[i].content :
           slice[i].content[r].type = "tool_result" =>
               \E j \in 1..(i - 1) : \E u \in DOMAIN slice[j].content :
                   /\ slice[j].content[u].type = "tool_use"
                   /\ slice[j].content[u].id = slice[i].content[r].toolUseId

ValidityPreservation ==
    \A a \in Agents : pc[a] \notin {"idle", "synthesize", "render"} =>
        ValidSlice(rendered[a])

\* A slice was returned that is pruned inside the agent loop: it holds the
\* loop's first message, then the messages from a tool_use message on.
ValidityPreservationWitness ==
    \E a \in Agents :
        /\ pc[a] = "generate"
        /\ contextPruning[a].lastAgentLoopInnerStartIdx >
               contextPruning[a].lastAgentLoopStartIdx
        /\ Len(rendered[a]) >= 3
        /\ Len(rendered[a]) < Len(messages[a])

(***************************************************************************)
(* C3  Tool result completeness: while no tick of the agent is in flight,  *)
(* every persisted agent message with k >= 1 tool_use blocks is followed   *)
(* at the next position by a user message of exactly k tool_result blocks, *)
(* one per tool_use id.                                                    *)
(***************************************************************************)
\* results holds one tool_result per tool_use of uses, in some order.
OnePerToolUse(uses, results) ==
    /\ Len(results) = Len(uses)
    /\ \A j \in DOMAIN results : results[j].type = "tool_result"
    /\ \E p \in Permutations(DOMAIN uses) :
           \A j \in DOMAIN uses : results[p[j]].toolUseId = uses[j].id

ToolResultPreceded ==
    \A a \in Agents :
        LET log == PersistedLog(a)
        IN  \A i \in DOMAIN log : \A r \in DOMAIN log[i].content :
                log[i].content[r].type = "tool_result" =>
                    \E j \in 1..(i - 1) : \E u \in DOMAIN log[j].content :
                        /\ log[j].content[u].type = "tool_use"
                        /\ log[j].content[u].id = log[i].content[r].toolUseId

\* The log holds the tool results of two turns.
ToolResultPrecededWitness ==
    \E a \in Agents :
        LET log == PersistedLog(a)
        IN  \E i, j \in DOMAIN log :
                /\ i < j
                /\ BlocksOfType(log[i].content, "tool_result") # << >>
                /\ BlocksOfType(log[j].content, "tool_result") # << >>

(***************************************************************************)
(* C5  Monotonic pruning: over the lifetime of one engine, whatever ticks  *)
(* run and however they end, loopStart and innerStart start at 0 and       *)
(* never decrease.  (A step that leaves tick[a].result = "none" builds a   *)
(* new engine for agent a.)                                                *)
(***************************************************************************)
MonotonicPruning ==
    /\ \A a \in Agents : contextPruning[a] = InitialCursor
    /\ [][\A a \in Agents :
            IF tick'[a].result = "none"
            THEN /\ contextPruning'[a].lastAgentLoopStartIdx = 0
                 /\ contextPruning'[a].lastAgentLoopInnerStartIdx = 0
            ELSE /\ contextPruning'[a].lastAgentLoopStartIdx >=
                        contextPruning[a].lastAgentLoopStartIdx
                 /\ contextPruning'[a].lastAgentLoopInnerStartIdx >=
                        contextPruning[a].lastAgentLoopInnerStartIdx]_vars

\* The cursor of an engine advanced to a tool_use message inside the agent
\* loop, and the slice then fit.
MonotonicPruningWitness ==
    \E a \in Agents :
        /\ pc[a] = "generate"
        /\ contextPruning[a].lastAgentLoopInnerStartIdx >
               contextPruning[a].lastAgentLoopStartIdx

(***************************************************************************)
(* C6  Context overflow.  The claim as stated: a tick that returns the     *)
(* context-overflow error persists no message, so the agent's persisted    *)
(* log is the same after the tick as before it.                            *)
(***************************************************************************)
OverflowLeavesLogUnchanged ==
    \A a \in Agents :
        (pc[a] = "idle" /\ tick[a].result = "agent_loop_overflow_error") =>
            PersistedLog(a) = tick[a].before

\* Whether the row is the synthetic user message at the given position.
IsSyntheticUserRow(row, position) ==
    /\ row.role = "user"
    /\ row.content = << TextBlock >>
    /\ row.position = position
    /\ row.total_tokens = 0
    /\ row.cost = 0

\* No message from the scan start of the advance on is a boundary.
NoBoundaryLeft(a) ==
    LET cp == contextPruning[a]
        start == IF cp.lastAgentLoopInnerStartIdx > cp.lastAgentLoopStartIdx
                 THEN cp.lastAgentLoopInnerStartIdx + 1
                 ELSE cp.lastAgentLoopInnerStartIdx + 2
    IN  \A i \in DOMAIN messages[a] :
            i - 1 >= start =>
                /\ ~HasToolUse(messages[a][i])
                /\ ~IsTextOnlyUser(messages[a][i])

(***************************************************************************)
(* C6 as amended: a tick returns the context-overflow error only when no   *)
(* inner-loop-start or agent-loop-start boundary is left to advance to,    *)
(* and such a tick persists no assistant and no tool-result message: the   *)
(* persisted log after it is the log before it, followed by the synthetic  *)
(* user text message exactly when the log before was empty or ended with   *)
(* an agent message.                                                       *)
(***************************************************************************)
OverflowKeepsLog(a) ==
    LET log == PersistedLog(a)
        before == tick[a].before
    IN  /\ NoBoundaryLeft(a)
        /\ Len(log) = Len(before) + (IF NeededBefore(a) THEN 1 ELSE 0)
        /\ SubSeq(log, 1, Len(before)) = before
        /\ NeededBefore(a) => IsSyntheticUserRow(Last(log), Len(before))

\* A step of renderForModel with no boundary left that neither returns the
\* slice nor fails in model.tokens: the estimate exceeded the window.
ExceedsWithNoBoundaryLeft(a) ==
    /\ pc[a] = "render"
    /\ NoBoundaryLeft(a)
    /\ pc'[a] # "generate"
    /\ tick'[a].result # "tokens_error"
    /\ << pc[a], tick[a], contextPruning[a] >> #
           << pc'[a], tick'[a], contextPruning'[a] >>

OverflowPersistsNoAnswer ==
    /\ [](\A a \in Agents :
            (pc[a] = "idle" /\ tick[a].result = "agent_loop_overflow_error")
                => OverflowKeepsLog(a))
    /\ [][\A a \in Agents :
            ExceedsWithNoBoundaryLeft(a) =>
                /\ pc'[a] = "idle"
                /\ tick'[a].result = "agent_loop_overflow_error"
                /\ store' = store]_vars

\* A tick on a log that ended with an agent message returned the overflow
\* error after the cursor had advanced.
OverflowPersistsNoAnswerWitness ==
    \E a \in Agents :
        /\ pc[a] = "idle"
        /\ tick[a].result = "agent_loop_overflow_error"
        /\ tick[a].before # << >>
        /\ Last(tick[a].before).role = "agent"
        /\ contextPruning[a].lastAgentLoopInnerStartIdx > 0

(***************************************************************************)
(* C7  A successful tick with a non-empty assistant turn appends, in this  *)
(* order and at consecutive positions, the synthetic user message (only    *)
(* when one is needed), exactly one agent message, and one user message    *)
(* of tool results if and only if the turn holds a tool_use; on an empty   *)
(* log that is 2 messages for a text-only turn and 3 for a turn with a     *)
(* tool_use.  No tick has more than one successful model round-trip.       *)
(***************************************************************************)
\* The roles of the messages a successful tick is to append.
ExpectedRoles(a) ==
    (IF NeededBefore(a) THEN << "user" >> ELSE << >>)
    \o << "agent" >>
    \o (IF BlocksOfType(tick[a].message, "tool_use") # << >>
        THEN << "user" >> ELSE << >>)

SuccessfulTickAppends ==
    \A a \in Agents :
        /\ tick[a].roundTrips <= 1
        /\ (pc[a] = "idle" /\ tick[a].result = "ok") =>
            LET log == PersistedLog(a)
                before == tick[a].before
                added == AppendedByTick(a)
                roles == ExpectedRoles(a)
                uses == BlocksOfType(tick[a].message, "tool_use")
                agentAt == IF NeededBefore(a) THEN 2 ELSE 1
            IN  /\ tick[a].roundTrips = 1
                /\ SubSeq(log, 1, Len(before)) = before
                /\ Len(added) = Len(roles)
                /\ \A i \in DOMAIN added :
                       /\ added[i].role = roles[i]
                       /\ added[i].position = Len(before) + i - 1
                /\ NeededBefore(a) => added[1].content = << TextBlock >>
                /\ added[agentAt].content = tick[a].message
                /\ uses # << >> =>
                       /\ Len(Last(added).content) = Len(uses)
                       /\ \A j \in DOMAIN uses :
                              Last(added).content[j].type = "tool_result"
                /\ before = << >> =>
                       Len(log) = (IF uses = << >> THEN 2 ELSE 3)

\* One tick on the empty log left three messages: user, agent with one
\* tool_use, user with its tool_result.
SuccessfulTickAppendsWitness ==
    \E a \in Agents :
        /\ pc[a] = "idle"
        /\ tick[a].result = "ok"
        /\ tick[a].before = << >>
        /\ Len(PersistedLog(a)) = 3
        /\ Len(BlocksOfType(tick[a].message, "tool_use")) = 1

(***************************************************************************)
(* C8  A tick that reaches its model call has appended the synthetic user  *)
(* message (one text block, tokens 0, cost 0, position last + 1, or 0 on   *)
(* an empty log) if and only if the log was empty or its last message had  *)
(* role agent; after a successful tick with a non-empty turn,              *)
(* isNewUserMessageNeeded() is true exactly when the turn held no          *)
(* tool_use.                                                               *)
(***************************************************************************)
\* The tick of agent a is past the step that synthesizes the user message.
PastSynthesis(a) ==
    /\ pc[a] # "synthesize"
    /\ tick[a].result \notin {"none", "tool_error"}

ToolFailureKinds ==
    {"list_throws", "call_throws", "call_returns_error", "not_found"}

ToolFailuresAreData ==
    \A a \in Agents :
        /\ tick[a].toolState # << >> => tick[a].result \in {"running", "ok"}
        /\ \A i \in DOMAIN tick[a].toolState :
               tick[a].dispatched[i].kind \in ToolFailureKinds =>
                   /\ tick[a].toolResults[i].type = "tool_result"
                   /\ tick[a].toolResults[i].isError = TRUE
                   /\ tick[a].toolResults[i].content.code \in
                          {"tool_execution_error", "provider_content"}
                   /\ tick[a].toolResults[i].toolUseId =
                          BlocksOfType(tick[a].message, "tool_use")[i].id
        /\ (pc[a] = "idle" /\ tick[a].toolState # << >>) =>
               /\ Last(PersistedLog(a)).role = "user"
               /\ Last(PersistedLog(a)).content = tick[a].toolResults
               /\ Len(tick[a].toolResults) =
                      Len(BlocksOfType(tick[a].message, "tool_use"))

\* A tick returned success whose turn held a tool_use no client offered and
\* one that a provider answered without error.
ToolFailuresAreDataWitness ==
    \E a \in Agents :
        /\ pc[a] = "idle"
        /\ tick[a].result = "ok"
        /\ \E i, j \in DOMAIN tick[a].dispatched :
               /\ tick[a].dispatched[i].kind = "not_found"
               /\ tick[a].dispatched[j].kind = "call_returns"

(***************************************************************************)
(* C10  Each tool_use is dispatched to the first attached provider, in     *)
(* configuration order, that advertises the tool name, also when an        *)
(* earlier provider does not offer it or fails; its result is the error    *)
(* naming the missing tool if and only if no attached provider advertises  *)
(* the name.  (A dispatch that ends at the first advertising provider,     *)
(* be it by that provider's own failure, counts as dispatched to it, and   *)
(* any error result that names the tool counts as naming it.)              *)
(***************************************************************************)
\* The attached clients of agent a that advertise the name, by index.
Advertisers(a, name) ==
    {k \in DOMAIN mcpClients[a] :
        \E tool \in mcpClients[a][k].tools :
            mcpClients[a][k].name \o "-" \o tool = name}

FirstMatchDispatch ==
    \A a \in Agents : \A i \in DOMAIN tick[a].toolState :
        tick[a].toolState[i] = "done" =>
            LET t == BlocksOfType(tick[a].message, "tool_use")[i]
                offering == Advertisers(a, t.name)
                content == tick[a].toolResults[i].content
                missing == /\ content.code = "tool_execution_error"
                           /\ content.message =
                                  "No MCP client found to execute tool"
            IN  /\ offering # {} =>
                       /\ tick[a].dispatched[i].client \in offering
                       /\ \A k \in offering : tick[a].dispatched[i].client <= k
                /\ missing => offering = {}
                /\ offering = {} =>
                       /\ tick[a].toolResults[i].isError = TRUE
                       /\ content.code = "tool_execution_error"
                       /\ content.tool = t.name

(***************************************************************************)
(* Vocabulary of the properties of run().                                  *)
(***************************************************************************)
\* The rows of the run in the order in which they were persisted.
PersistedRows == SelectSeq(store, LAMBDA row : row.run = 1)

\* The sum of the costs of the persisted rows.
RECURSIVE CostOfRows(_)
CostOfRows(rows) ==
    IF rows = << >> THEN 0
    ELSE CostOfRows(SubSeq(rows, 1, Len(rows) - 1)) + rows[Len(rows)].cost

PersistedCost == CostOfRows(PersistedRows)

Continuous == ~config.singleTick

\* The tick of agent a returned an error Result to run().
TickFailed(a) ==
    /\ pc[a] = "idle"
    /\ tick[a].result \in {"tool_error", "problem_not_found", "tokens_error",
                           "agent_loop_overflow_error", "model_error"}

\* The loop of agent a has terminated.
Terminated(a) == loop[a] \in {"error", "thrown", "stopped", "ceiling"}

\* Some step of the tick in flight of agent b.
TickStepOf(b) ==
    \/ TickUserMessage(b) /\ InsideTick
    \/ RenderFits(b) /\ InsideTick
    \/ GenerateFails(b) /\ InsideTick
    \/ GenerateAnswers(b) /\ tick'[b].message \in RunTurns /\ InsideTick
    \/ ToolStart(b) /\ InsideTick
    \/ ToolFinish(b) /\ InsideTick
    \/ PersistAgentMessage(b) /\ InsideTick
    \/ PersistToolResults(b) /\ InsideTick

\* The loop of agent b can take its next step: call the next tick (while
\* the model lets ticks be started), go on with the tick in flight, look up
\* the latest message once the tick has returned, or go on with the cost.
NotBlocked(b) ==
    /\ (/\ loop[b] = "start"
        /\ TicksStarted < MaxTicks
        /\ Len(messages[b]) < MaxMessages) => ENABLED RunTick(b)
    /\ (loop[b] = "tick" /\ pc[b] # "idle") => ENABLED TickStepOf(b)
    /\ (loop[b] = "tick" /\ pc[b] = "idle") => ENABLED LoopLatest(b)
    /\ loop[b] = "cost" => ENABLED LoopCost(b)

(***************************************************************************)
(* C11  In continuous mode run() returns only after the loop of every      *)
(* selected agent has terminated, and its Result is an error whenever the  *)
(* tick of some agent failed; it is ok only if no tick failed.             *)
(***************************************************************************)
ContinuousResultReflectsErrors ==
    (Continuous /\ returned.status \in {"ok", "err"}) =>
        /\ \A a \in Agents : Terminated(a)
        /\ (\E a \in Agents : TickFailed(a)) => returned.status = "err"
        /\ returned.status = "ok" => \A a \in Agents : ~TickFailed(a)

CrossingRow ==
    LET rows == PersistedRows
        above == {i \in DOMAIN rows :
                     CostOfRows(SubSeq(rows, 1, i)) > config.maxCost}
    IN  IF above = {} THEN 0
        ELSE CHOOSE i \in above : \A j \in above : i <= j

\* The tick of agent a is the one that brought the cost above the ceiling.
CrossedBy(a) == CrossingRow # 0 /\ PersistedRows[CrossingRow].agent = a

CeilingAfterTick ==
    /\ []((Continuous /\ config.maxCost > 0) =>
            \A a \in Agents :
                /\ pc[a] # "idle" => loop[a] = "tick"
                /\ CrossedBy(a) =>
                       /\ loop[a] # "start"
                       /\ \A j \in DOMAIN PersistedRows :
                              (j > CrossingRow /\ PersistedRows[j].agent = a)
                                  => PersistedRows[j].role = "user")
    /\ [][(Continuous /\ config.maxCost > 0) =>
            /\ Len(store') >= Len(store)
            /\ SubSeq(store', 1, Len(store)) = store
            /\ \A a \in Agents :
                   (loop'[a] # loop[a] /\ loop[a] # "start") =>
                       /\ pc[a] = "idle"
                       /\ tick[a].result # "running"
                       /\ pc' = pc
                       /\ tick' = tick
                       /\ messages' = messages
                       /\ store' = store]_vars

\* The loop of an agent ended above the ceiling after its second tick: its
\* first tick had left the cost at 0, its second one brought it above.
CeilingAfterTickWitness ==
    /\ Continuous
    /\ config.maxCost > 0
    /\ \E a \in Agents :
           /\ loop[a] = "ceiling"
           /\ CrossedBy(a)
           /\ Len(onCostUpdateCalls[a]) = 2
           /\ onCostUpdateCalls[a][1] = 0
           /\ onCostUpdateCalls[a][2] > config.maxCost

(***************************************************************************)
(* C14  In continuous mode, once the persisted cost of the run is above    *)
(* maxCost no loop calls a new tick: every agent only finishes the tick    *)
(* it has in flight, and run() eventually returns, given that every tick   *)
(* in flight completes (a tick the model's bound on ticks keeps from       *)
(* starting does not).                                                     *)
(***************************************************************************)
AboveCeiling == Continuous /\ config.maxCost > 0 /\ PersistedCost > config.maxCost

\* The loop of some agent awaits a tick that the bound keeps from starting.
TickHeldByBound ==
    \E a \in Agents :
        /\ loop[a] = "start"
        /\ ~(TicksStarted < MaxTicks /\ Len(messages[a]) < MaxMessages)

OvershootAtMostOneTick ==
    (Continuous /\ config.maxCost > 0 /\ CrossingRow # 0) =>
        \A j \in DOMAIN PersistedRows :
            j > CrossingRow => PersistedRows[j].cost = 0

(***************************************************************************)
(* C16  In continuous mode with onCostUpdate supplied, every tick of an    *)
(* agent that returned success is followed by exactly one call of          *)
(* onCostUpdate from the agent's loop, with the cost of the run, also the  *)
(* tick on which stopOn returns true and the tick that crosses the         *)
(* ceiling.  (onMessage is supplied as well and the run is never empty     *)
(* after a successful tick, so the calls of onMessage from a loop count    *)
(* the loop's successful ticks.)                                           *)
(***************************************************************************)
CostUpdateAfterEveryTick ==
    (Continuous /\ config.onCostUpdate /\ config.onMessage) =>
        \A a \in Agents :
            loop[a] \in {"start", "stopped", "ceiling"} =>
                /\ Len(onCostUpdateCalls[a]) = Len(onMessageCalls[a])
                /\ onCostUpdateCalls[a] # << >> =>
                       Last(onCostUpdateCalls[a]) <= PersistedCost

(***************************************************************************)
(* C17  With onMessage supplied, once run() has returned ok, every         *)
(* persisted message of role agent has been passed to onMessage exactly    *)
(* once, in single-tick mode as well as in continuous mode, also when the  *)
(* turn holds tool_use blocks and is followed by a tool_result message.    *)
(***************************************************************************)
\* The calls of onMessage, of any loop, with the row of the given id.
OnMessageCallsWith(id) ==
    {c \in UNION {{<< a, k >> : k \in DOMAIN onMessageCalls[a]} : a \in Agents} :
        onMessageCalls[c[1]][c[2]] = id}

OnMessagePerAgentMessage ==
    (config.onMessage /\ returned.status = "ok") =>
        \A i \in DOMAIN PersistedRows :
            PersistedRows[i].role = "agent" =>
                Cardinality(OnMessageCallsWith(PersistedRows[i].id)) = 1

(***************************************************************************)
(* C18  In continuous mode, after a tick of an agent that returned success *)
(* and persisted a message, the message its loop hands to onMessage and    *)
(* stopOn is the last message of that agent's log, the most recently       *)
(* persisted message of the tick that just completed, also when the logs   *)
(* of the agents of the run have different lengths.                        *)
(***************************************************************************)
LatestIsOwnLastMessage ==
    Continuous =>
        \A a \in Agents :
            (/\ loop[a] \in {"start", "cost", "stopped", "ceiling"}
             /\ tick[a].result = "ok") =>
                /\ latest[a] # 0
                /\ store[latest[a]].agent = a
                /\ store[latest[a]] = Last(PersistedLog(a))

(***************************************************************************)
(* C19  In single-tick mode, when run() returns, exactly one tick has run  *)
(* on each agent; if one of them failed the Result is an error and holds   *)
(* no cost; otherwise it is ok with the cost of the run after all the      *)
(* ticks, and stopped is set exactly when stopOn is supplied and true of   *)
(* the most recently persisted message of the run.                         *)
(***************************************************************************)
\* The most recently persisted message of the run.
MostRecent == PersistedRows[Len(PersistedRows)]

SingleTickResult ==
    (config.singleTick /\ returned.status \in {"ok", "err"}) =>
        /\ \A a \in Agents :
               /\ pc[a] = "idle"
               /\ tick[a].result \notin {"none", "running"}
               /\ tick[a].before = << >>
        /\ (\E a \in Agents : TickFailed(a)) =>
               returned.status = "err" /\ ~returned.hasCost
        /\ (\A a \in Agents : ~TickFailed(a)) =>
               /\ returned.status = "ok"
               /\ returned.hasCost
               /\ returned.cost = PersistedCost
               /\ returned.stopped <=>
                      /\ config.stopOn = "final"
                      /\ PersistedRows # << >>
                      /\ MostRecent.role = "agent"
                      /\ BlocksOfType(MostRecent.content, "tool_use") = << >>

(***************************************************************************)
(* C20  After deleteRun(name) has returned success, neither the run nor    *)
(* any message of that run remains in the store: the step that removes a   *)
(* row of runs leaves no row of that name and no message that references   *)
(* the row.                                                                *)
(***************************************************************************)
DeleteRunCascades ==
    [][\A row \in runs :
          row \notin runs' =>
              /\ \A q \in runs' : q.name # row.name
              /\ \A i \in DOMAIN store' : store'[i].run # row.id]_vars

(***************************************************************************)
(* C21  Run names are unique: no two rows of runs share a name; createRun  *)
(* with a name that is taken returns an error Result and leaves the runs   *)
(* and the messages unchanged; getRun of a name no run has returns         *)
(* not_found_error.                                                        *)
(***************************************************************************)
NamesAreUnique == \A r \in runs : \A q \in runs : r.name = q.name => r = q

RunNamesUnique ==
    /\ []NamesAreUnique
    /\ [][called' # called =>
              /\ (called'.op = "createRun" /\ FindByName(called'.name) # {}) =>
                     /\ called'.status = "err"
                     /\ runs' = runs
                     /\ store' = store
              /\ (called'.op = "getRun" /\ FindByName(called'.name) = {}) =>
                     /\ called'.status = "err"
                     /\ called'.code = "not_found_error"]_vars

\* createRun of a taken name has returned its error, the run still there.
RunNamesUniqueWitness ==
    /\ called.op = "createRun"
    /\ called.status = "err"
    /\ FindByName(called.name) # {}
    /\ store # << >>

(***************************************************************************)
(* C22  In every reachable state the aggregate cost of the run, as         *)
(* totalCostForRun computes it and as run() reports it, is the sum of the  *)
(* costs of the persisted messages of the run over all its agents, and     *)
(* every persisted user message (synthesized text or tool results) has     *)
(* cost 0 and tokens 0.                                                    *)
(***************************************************************************)
\* The sum of the costs of the logs of the given agents.
RECURSIVE CostOfLogs(_)
CostOfLogs(agents) ==
    IF agents = {} THEN 0
    ELSE LET a == CHOOSE b \in agents : TRUE
         IN  CostOfRows(PersistedLog(a)) + CostOfLogs(agents \ {a})

CostAdditivity ==
    /\ TotalCostForRun(TheRun) = CostOfLogs(Agents)
    /\ \A i \in DOMAIN store :
           store[i].role = "user" =>
               store[i].cost = 0 /\ store[i].total_tokens = 0
    /\ returned.hasCost => returned.cost = CostOfLogs(Agents)
    /\ lastCost <= CostOfLogs(Agents)

\* Both agents have persisted a costed answer, one of them with the results
\* of its tools, and the cost of the run has been read.
CostAdditivityWitness ==
    /\ \A a \in Agents : CostOfRows(PersistedLog(a)) > 0
    /\ \E i \in DOMAIN store :
           /\ store[i].role = "user"
           /\ BlocksOfType(store[i].content, "tool_result") # << >>
    /\ lastCost = CostOfLogs(Agents)

(***************************************************************************)
(* C23  When providers fail to connect while an engine is built, the       *)
(* engine holds the providers that connected, in configuration order; a    *)
(* tool_use that names a tool none of them offers, a tool of a provider    *)
(* that failed to connect, gets a tool_result with isError that names the  *)
(* tool, and the tick goes on to persist it instead of failing.            *)
(***************************************************************************)
\* The clients are configured servers, in the order of the configuration.
KeptInOrder(clients, configs) ==
    \E f \in [1..Len(clients) -> 1..Len(configs)] :
        /\ \A k \in 1..Len(clients) : clients[k] = configs[f[k]]
        /\ \A k \in 1..Len(clients) : \A l \in 1..Len(clients) :
               k < l => f[k] < f[l]

\* The tool names the clients offer the model.
AdvertisedBy(clients) ==
    UNION { {AdvertisedName(clients[k], tool) : tool \in clients[k].tools} :
            k \in DOMAIN clients }

\* The tools of the configuration that engine a misses.
MissingTools(a) == AdvertisedBy(McpConfigs) \ AdvertisedBy(mcpClients[a])

FailedProviderIsSkipped ==
    \A a \in Agents :
        /\ KeptInOrder(mcpClients[a], McpConfigs)
        /\ \A i \in DOMAIN tick[a].toolState :
               LET t == BlocksOfType(tick[a].message, "tool_use")[i]
               IN  (tick[a].toolState[i] = "done" /\ t.name \in MissingTools(a)) =>
                       /\ tick[a].toolResults[i].type = "tool_result"
                       /\ tick[a].toolResults[i].isError = TRUE
                       /\ tick[a].toolResults[i].toolUseId = t.id
                       /\ tick[a].toolResults[i].content.tool = t.name
                       /\ tick[a].result \in {"running", "ok"}
                       /\ (pc[a] = "idle" =>
                               Last(PersistedLog(a)).content = tick[a].toolResults)

\* The second provider failed to connect; a tick whose turn used its tool
\* has returned success with the result that no client was found.
FailedProviderIsSkippedWitness ==
    \E a \in Agents :
        /\ mcpClients[a] = << McpConfigs[1] >>
        /\ pc[a] = "idle"
        /\ tick[a].result = "ok"
        /\ \E i \in DOMAIN tick[a].toolState :
               /\ BlocksOfType(tick[a].message, "tool_use")[i].name \in MissingTools(a)
               /\ tick[a].dispatched[i].kind = "not_found"

(***************************************************************************)
(* C24  When an enabled entry of mcpServers is malformed (no name, stdio   *)
(* without command, sse without url, or a transport that is neither), the  *)
(* build of every engine fails before any connection attempt: no builder   *)
(* connects to a provider or returns an engine, run() returns the          *)
(* configuration error and no tick starts.                                 *)
(***************************************************************************)
\* A malformed entry: a required field of its transport is missing, or the
\* transport is not recognized.
InvalidServerOrTransport(server) ==
    \/ server.name = ""
    \/ server.transport = "stdio" /\ ~server.command
    \/ server.transport = "sse" /\ ~server.url
    \/ server.transport \notin {"stdio", "sse"}

\* An enabled entry of the profile is malformed.
MalformedEntry ==
    \E k \in DOMAIN settings :
        settings[k].enabled /\ InvalidServerOrTransport(settings[k])

MalformedEntryFailsBuild ==
    MalformedEntry =>
        /\ \A a \in Agents :
               /\ build[a].stage \in {"load", "failed"}
               /\ build[a].attempts = << >>
               /\ mcpClients[a] = << >>
               /\ loop[a] = "none"
               /\ pc[a] = "idle" /\ tick[a] = NoTick
        /\ returned.status \in {"pending", "err"}

(***************************************************************************)
(* C25  When model.generate answers with a turn of zero content blocks,    *)
(* tick() returns success at once: no tool is dispatched and neither an    *)
(* agent message nor a tool-result message is persisted; the log and the   *)
(* cache of the engine are what they were before the call of the model.    *)
(***************************************************************************)
\* The model has answered the tick of agent a with an empty turn.
AnsweredEmpty(a) == tick[a].roundTrips > 0 /\ tick[a].message = << >>

EmptyTurnPersistsNothing ==
    /\ [](\A a \in Agents :
            AnsweredEmpty(a) =>
                /\ pc[a] = "idle"
                /\ tick[a].result = "ok_empty"
                /\ tick[a].toolState = << >>
                /\ tick[a].toolResults = << >>
                /\ Len(PersistedLog(a)) =
                       Len(tick[a].before) + (IF tick[a].synthesized THEN 1 ELSE 0)
                /\ SubSeq(PersistedLog(a), 1, Len(tick[a].before)) = tick[a].before
                /\ tick[a].synthesized =>
                       IsSyntheticUserRow(Last(PersistedLog(a)), Len(tick[a].before))
                /\ messages[a] = PersistedLog(a))
    /\ [][\A a \in Agents :
            (pc[a] = "generate" /\ ~AnsweredEmpty(a) /\ AnsweredEmpty(a)') =>
                /\ store' = store
                /\ messages' = messages
                /\ contextPruning' = contextPruning]_vars

\* An empty turn has answered a tick on a log that holds an earlier turn
\* with its tool results.
EmptyTurnPersistsNothingWitness ==
    \E a \in Agents :
        /\ AnsweredEmpty(a)
        /\ tick[a].result = "ok_empty"
        /\ \E i \in DOMAIN tick[a].before :
               BlocksOfType(tick[a].before[i].content, "tool_result") # << >>

(***************************************************************************)
(* C26  When model.generate fails for good (a failure that is not          *)
(* transient, or the last attempt), tick() returns the error and persists  *)
(* no agent and no tool-result message; in continuous mode the loop of     *)
(* that agent returns the error and the loops of its siblings go on; the   *)
(* messages persisted before remain, and the log ends with a user          *)
(* message, so that the next tick of the agent, which decides on the       *)
(* log whether a user message is needed, synthesizes none.                 *)
(***************************************************************************)
InferenceFailed(a) == tick[a].result = "model_error"

InferenceFailureIsResumable ==
    /\ [](\A a \in Agents :
            InferenceFailed(a) =>
                /\ pc[a] = "idle"
                /\ Len(PersistedLog(a)) =
                       Len(tick[a].before) + (IF tick[a].synthesized THEN 1 ELSE 0)
                /\ SubSeq(PersistedLog(a), 1, Len(tick[a].before)) = tick[a].before
                /\ Last(PersistedLog(a)).role = "user"
                /\ messages[a] = PersistedLog(a)
                /\ ~IsNewUserMessageNeeded(messages[a])
                /\ ~IsNewUserMessageNeeded(PersistedLog(a))
                /\ (Continuous /\ loop[a] # "tick") => loop[a] = "error")
    /\ [][\A a \in Agents :
            (Continuous /\ InferenceFailed(a) /\ loop[a] = "tick"
                        /\ loop'[a] # "tick") =>
                /\ loop'[a] = "error"
                /\ \A b \in Agents \ {a} :
                       /\ loop'[b] = loop[b]
                       /\ pc'[b] = pc[b]
                       /\ tick'[b] = tick[b]
                /\ store' = store]_vars

\* The loop of an agent has returned the error of the model while a tick of
\* its sibling, started after that, is with the model.
InferenceFailureIsResumableWitness ==
    \E a \in Agents : \E b \in Agents \ {a} :
        /\ Continuous
        /\ InferenceFailed(a)
        /\ loop[a] = "error"
        /\ tick[a].attempts = RetryAttempts
        /\ loop[b] = "tick"
        /\ pc[b] = "generate"
        /\ tickCount = 1

(***************************************************************************)
(* C27  tick() and run() report every failure as an error Result: neither  *)
(* throws or rejects, also when an append to the message store fails.      *)
(***************************************************************************)
NeverThrows ==
    /\ \A a \in Agents : tick[a].result # "thrown"
    /\ returned.status # "thrown"

(***************************************************************************)
(* C28  The log of every agent is append-only: no step of a tick or of     *)
(* the coordinator changes, removes or reorders a persisted message; the   *)
(* rows of the store before a step are the first rows of the store after   *)
(* it, and the log of each agent before the step is a prefix of its log    *)
(* after it: a log is read in position order, and every new row has a      *)
(* position above those of the rows its agent had.                         *)
(***************************************************************************)
IsPrefix(s, t) == Len(s) <= Len(t) /\ SubSeq(t, 1, Len(s)) = s

AppendOnlyLog ==
    [][store' # store =>
          /\ IsPrefix(store, store')
          /\ \A i \in (Len(store) + 1)..Len(store') :
                 \A j \in DOMAIN store :
                     IsAgentRow(store[j], store'[i].agent) =>
                         store[j].position < store'[i].position]_vars

\* Both agents have appended to their logs, one of them twice in a tick.
AppendOnlyLogWitness ==
    /\ \A a \in Agents : Len(PersistedLog(a)) >= 2
    /\ \E a \in Agents : Len(PersistedLog(a)) >= 3
    /\ \A a \in Agents : loop[a] # "tick"

(***************************************************************************)
(* C29  Within one invocation of run() there is one engine per agent of    *)
(* the run and the ticks of an agent do not overlap, so that each log has  *)
(* a single writer: every row of an agent's log was appended by the one    *)
(* engine of that agent, no two rows share (run, agent, position), and no  *)
(* insert is refused for a position that is taken.                         *)
(***************************************************************************)
SingleWriter ==
    /\ Agents = AgentIndices(TheRun)
    /\ \A a \in Agents :
           /\ loop[a] # "tick" => pc[a] = "idle"
           /\ pc[a] # "idle" => tick[a].result = "running"
           /\ SelectSeq(store, LAMBDA row : IsAgentRow(row, a)) = messages[a]
           /\ tick[a].result # "thrown"
    /\ \A i \in DOMAIN store : \A j \in DOMAIN store :
           (/\ store[i].run = store[j].run
            /\ store[i].agent = store[j].agent
            /\ store[i].position = store[j].position) => i = j

\* The two engines are persisting at once, each at position 1 of its log.
SingleWriterWitness ==
    /\ \A a \in Agents : pc[a] = "persist" /\ Len(messages[a]) = 1
    /\ Continuous

(***************************************************************************)
(* C30  A tick of agent i reads and appends only messages of agent i and   *)
(* changes only the cache and the cursor of engine i: a step of a tick of  *)
(* one agent leaves the persisted log, the cache, the cursor and the tick  *)
(* in flight of every other agent of the run unchanged, and the rows it    *)
(* appends and caches are rows of its own agent, under every interleaving  *)
(* of the ticks.                                                           *)
(***************************************************************************)
\* The engine of agent a: what a tick of a may change.
EngineOf(a) ==
    << messages[a], contextPruning[a], pc[a], tick[a], rendered[a],
       mcpClients[a] >>

\* The rows of agent a, in the order of their insertion.
RowsOf(a) == SelectSeq(store, LAMBDA row : IsAgentRow(row, a))

TickFrame ==
    /\ [](\A a \in Agents :
            /\ \A i \in DOMAIN messages[a] : messages[a][i].agent = a
            /\ \A i \in DOMAIN tick[a].before : tick[a].before[i].agent = a)
    /\ [][\A a \in Agents :
            EngineOf(a)' # EngineOf(a) =>
                /\ \A b \in Agents \ {a} :
                       /\ EngineOf(b)' = EngineOf(b)
                       /\ RowsOf(b)' = RowsOf(b)
                /\ \A i \in (Len(store) + 1)..Len(store') :
                       store'[i].agent = a]_vars

\* An engine has advanced its cursor and persisted a turn with its tool
\* results while the tick of its sibling, which has not, is in flight.
TickFrameWitness ==
    \E a \in Agents : \E b \in Agents \ {a} :
        /\ contextPruning[a] # InitialCursor
        /\ tick[a].result = "ok"
        /\ Len(messages[a]) = Len(tick[a].before) + 3
        /\ contextPruning[b] = InitialCursor
        /\ pc[b] = "generate"
        /\ Len(messages[b]) = Len(tick[b].before) + 1

(***************************************************************************)
(* C31  The latest exchange is never dropped: every slice renderForModel   *)
(* returned ends with the last message of the agent's log, that message    *)
(* is a user message, and when it holds tool_result blocks the agent       *)
(* message with their tool_use blocks is in the slice before it.           *)
(***************************************************************************)
\* The tick of agent a holds a returned slice and has appended nothing since.
SliceInUse(a) == pc[a] \in {"generate", "tools", "persist"}

\* The tool_use blocks that the tool_result blocks of message m answer are
\* all held by one agent message of slice before its last message.
ToolUsesInSlice(slice, m) ==
    \E j \in 1..(Len(slice) - 1) :
        /\ slice[j].role = "agent"
        /\ \A r \in DOMAIN m.content :
               m.content[r].type = "tool_result" =>
                   \E u \in DOMAIN slice[j].content :
                       /\ slice[j].content[u].type = "tool_use"
                       /\ slice[j].content[u].id = m.content[r].toolUseId

LatestExchangeKept ==
    \A a \in Agents : SliceInUse(a) =>
        /\ rendered[a] # << >>
        /\ messages[a] # << >>
        /\ Last(rendered[a]) = ToJSON(Last(messages[a]))
        /\ Last(rendered[a]).role = "user"
        /\ BlocksOfType(Last(rendered[a]).content, "tool_result") # << >> =>
               ToolUsesInSlice(rendered[a], Last(rendered[a]))

\* A slice pruned inside the agent loop was returned whose last message
\* holds tool results.
LatestExchangeKeptWitness ==
    \E a \in Agents :
        /\ pc[a] = "generate"
        /\ contextPruning[a].lastAgentLoopInnerStartIdx >
               contextPruning[a].lastAgentLoopStartIdx
        /\ Len(rendered[a]) < Len(messages[a])
        /\ BlocksOfType(Last(rendered[a]).content, "tool_result") # << >>

(***************************************************************************)
(* C32  One cursor advance scans the log from innerStart + 1, or from      *)
(* innerStart + 2 when innerStart = loopStart, for the first inner-loop    *)
(* start or agent-loop start.  At an agent-loop start both indices become  *)
(* its index; at an inner-loop start only innerStart does; when the scan   *)
(* reaches the end of the log the tick returns the overflow error and      *)
(* both indices are unchanged.                                             *)
(***************************************************************************)
\* The step is one call of shiftContextPruning by the engine of agent a.
AdvanceStep(a) ==
    /\ pc[a] = "render"
    /\ pc'[a] # "generate"
    /\ tick'[a].result # "tokens_error"
    /\ <<pc[a], tick[a], contextPruning[a]>> #
           <<pc'[a], tick'[a], contextPruning'[a]>>

\* The indices (from 0) of the boundaries of msgs at or after index from.
BoundariesFrom(msgs, from) ==
    {i \in from..(Len(msgs) - 1) :
         \/ IsAgentLoopInnerStartMessage(ToJSON(At(msgs, i)))
         \/ IsAgentLoopStartMessage(ToJSON(At(msgs, i)))}

\* The least element of a non-empty set of numbers.
Least(S) == CHOOSE i \in S : \A j \in S : i <= j

OneCursorAdvance ==
    [][\A a \in Agents : AdvanceStep(a) =>
          LET cp == contextPruning[a]
              from == IF cp.lastAgentLoopInnerStartIdx = cp.lastAgentLoopStartIdx
                      THEN cp.lastAgentLoopInnerStartIdx + 2
                      ELSE cp.lastAgentLoopInnerStartIdx + 1
              found == BoundariesFrom(messages[a], from)
          IN  IF found = {}
              THEN /\ tick'[a].result = "agent_loop_overflow_error"
                   /\ contextPruning'[a] = cp
              ELSE LET idx == Least(found)
                   IN  /\ pc'[a] = "render"
                       /\ contextPruning'[a].lastAgentLoopInnerStartIdx = idx
                       /\ contextPruning'[a].lastAgentLoopStartIdx =
                              IF IsAgentLoopStartMessage(ToJSON(At(messages[a], idx)))
                              THEN idx ELSE cp.lastAgentLoopStartIdx]_vars

\* The cursor has advanced to an inner-loop start, past the tool_use message
\* next to the loop start, and the slice is being checked again.
OneCursorAdvanceWitness ==
    \E a \in Agents :
        /\ pc[a] = "render"
        /\ contextPruning[a].lastAgentLoopInnerStartIdx >
               contextPruning[a].lastAgentLoopStartIdx + 1
        /\ IsAgentLoopInnerStartMessage(
               ToJSON(At(messages[a], contextPruning[a].lastAgentLoopStartIdx + 1)))

(***************************************************************************)
(* C33  The slice renderForModel returns is exactly the messages from      *)
(* innerStart to the end of the log, preceded by the one message at        *)
(* loopStart if and only if innerStart > loopStart: the messages at a set  *)
(* of log indices, in log order, none twice.  The rendering that fits      *)
(* leaves the cursor as it is.                                             *)
(***************************************************************************)
\* The indices (from 0) of the messages of msgs that a slice under cp keeps.
KeptIndices(msgs, cp) ==
    {i \in 0..(Len(msgs) - 1) :
         \/ i >= cp.lastAgentLoopInnerStartIdx
         \/ /\ i = cp.lastAgentLoopStartIdx
            /\ cp.lastAgentLoopInnerStartIdx > cp.lastAgentLoopStartIdx}

\* The k-th index of S in increasing order.
KthOf(S, k) == CHOOSE i \in S : Cardinality({j \in S : j < i}) = k - 1

RenderedSliceShape ==
    [][\A a \in Agents : (pc[a] = "render" /\ pc'[a] = "generate") =>
          LET kept == KeptIndices(messages[a], contextPruning[a])
          IN  /\ Len(rendered'[a]) = Cardinality(kept)
              /\ \A k \in DOMAIN rendered'[a] :
                     rendered'[a][k] = ToJSON(At(messages[a], KthOf(kept, k)))
              /\ contextPruning'[a] = contextPruning[a]]_vars

\* A slice was returned that leaves out the messages between the loop start
\* and a tool_use message further on.
RenderedSliceShapeWitness ==
    \E a \in Agents :
        /\ pc[a] = "generate"
        /\ contextPruning[a].lastAgentLoopInnerStartIdx >
               contextPruning[a].lastAgentLoopStartIdx + 1
        /\ Len(rendered[a]) =
               Len(messages[a]) - contextPruning[a].lastAgentLoopInnerStartIdx + 1
        /\ rendered[a][1] =
               ToJSON(At(messages[a], contextPruning[a].lastAgentLoopStartIdx))

(***************************************************************************)
(* A tick whose turn holds more tool_use blocks than the executor runs at  *)
(* once: the engine of agent 0 on an empty log has persisted the user      *)
(* message, rendered it, and model.generate has answered with a turn of n  *)
(* tool_use blocks.  No MCP client is connected: every invocation returns  *)
(* the "no MCP client found" result.                                       *)
(***************************************************************************)
\* A turn of n tool_use blocks.
WideTurn(n) == [i \in 1..n |-> ToolUse(i, "s-a")]

\* The user message the tick has persisted.
WideTurnUserRow ==
    [id |-> 1, run |-> TheRun.id, agent |-> 0, position |-> 0,
     role |-> "user", content |-> << TextBlock >>,
     total_tokens |-> 0, cost |-> 0]

WideTurnInit ==
    /\ store = << WideTurnUserRow >>
    /\ messages = [a \in EngineAgents |-> << WideTurnUserRow >>]
    /\ contextPruning = [a \in EngineAgents |-> InitialCursor]
    /\ pc = [a \in EngineAgents |-> "tools"]
    /\ \E n \in 1..MaxToolUses :
           tick = [a \in EngineAgents |->
                       [NoTick EXCEPT !.result = "running",
                                      !.synthesized = TRUE,
                                      !.attempts = 1,
                                      !.roundTrips = 1,
                                      !.message = WideTurn(n),
                                      !.tokenUsage = SomeUsage,
                                      !.toolState = [i \in 1..n |-> "waiting"],
                                      !.toolResults = [i \in 1..n |-> NoResult],
                                      !.dispatched = [i \in 1..n |-> NoDispatch]]]
    /\ rendered = [a \in EngineAgents |-> << ToJSON(WideTurnUserRow) >>]
    /\ mcpClients = [a \in EngineAgents |-> << >>]
    /\ settings = << >>
    /\ build = [a \in EngineAgents |-> Built]
    /\ NoRunInvocation(EngineAgents)
    /\ RunCreated

WideTurnNext ==
    \/ \E a \in Agents : ToolStart(a) /\ EngineOnly
    \/ \E a \in Agents : ToolFinish(a) /\ EngineOnly
    \/ \E a \in Agents : PersistAgentMessage(a) /\ EngineOnly
    \/ \E a \in Agents : PersistToolResults(a) /\ EngineOnly

WideTurnSpec == WideTurnInit /\ [][WideTurnNext]_vars

(***************************************************************************)
(* C34  Within one tick the tool_use blocks of the turn are invoked        *)
(* concurrently with at most 8 invocations in flight, and each block is    *)
(* invoked exactly once: an invocation starts once, returns once, and the  *)
(* turn is persisted with one result per block, in the blocks' order.      *)
(***************************************************************************)
\* The tool_use blocks of agent a's turn whose invocation is in the state st.
ToolUsesIn(a, st) == {i \in DOMAIN tick[a].toolState : tick[a].toolState[i] = st}

\* No invocation of agent a starts or returns a second time in the step.
InvokedOnce(a) ==
    DOMAIN tick'[a].toolState = DOMAIN tick[a].toolState =>
        \A i \in DOMAIN tick[a].toolState :
            \/ tick'[a].toolState[i] = tick[a].toolState[i]
            \/ tick[a].toolState[i] = "waiting" /\ tick'[a].toolState[i] = "running"
            \/ tick[a].toolState[i] = "running" /\ tick'[a].toolState[i] = "done"

BoundedToolConcurrency ==
    /\ [](\A a \in Agents :
             /\ Cardinality(ToolUsesIn(a, "running")) <= 8
             /\ pc[a] \in {"persist", "persist_results"} =>
                    /\ ToolUsesIn(a, "done") = DOMAIN tick[a].toolState
                    /\ Len(tick[a].toolResults) = Len(ToolUsesOf(tick[a].message))
                    /\ \A i \in DOMAIN tick[a].toolResults :
                           /\ tick[a].toolResults[i].type = "tool_result"
                           /\ tick[a].toolResults[i].toolUseId =
                                  ToolUsesOf(tick[a].message)[i].id)
    /\ [][\A a \in Agents : InvokedOnce(a)]_vars

\* Eight invocations are in flight, one or more have returned or not, and a
\* further tool_use block of the turn waits for a free slot.
BoundedToolConcurrencyWitness ==
    \E a \in Agents :
        /\ Cardinality(ToolUsesIn(a, "running")) = 8
        /\ ToolUsesIn(a, "waiting") # {}

(***************************************************************************)
(* C35  Role alternation: the log of an agent, built by ticks from the     *)
(* empty log, alternates between user and agent messages and begins with   *)
(* a user message (even positions user, odd positions agent), in every     *)
(* reachable state: during a tick and after failed, empty and retried      *)
(* ticks too.                                                              *)
(***************************************************************************)
\* The role of the message at a position (from 0) of an alternating log.
RoleAt(position) == IF position % 2 = 0 THEN "user" ELSE "agent"

RoleAlternation ==
    \A a \in Agents :
        /\ \A i \in DOMAIN messages[a] : messages[a][i].role = RoleAt(i - 1)
        /\ \A k \in DOMAIN store :
               store[k].agent = a => store[k].role = RoleAt(store[k].position)

\* A tick has failed after a turn without tool use was persisted, and the
\* log holds two user messages that are not tool results.
RoleAlternationWitness ==
    \E a \in Agents :
        /\ TickFailed(a)
        /\ Len(messages[a]) >= 3
        /\ IsTextOnlyUser(ToJSON(messages[a][1]))
        /\ IsTextOnlyUser(ToJSON(messages[a][3]))

(***************************************************************************)
(* C36  Cursor well-formedness: whenever the engine renders a slice or     *)
(* advances the cursor, 0 <= loopStart <= innerStart < number of cached    *)
(* messages, so the assertion of shiftContextPruning never fails; the      *)
(* message at loopStart is a text-only user message; and when innerStart   *)
(* > loopStart the message at innerStart is an agent message holding a     *)
(* tool_use block.                                                         *)
(***************************************************************************)
CursorWellFormed ==
    \A a \in Agents : pc[a] = "render" =>
        LET cp == contextPruning[a]
        IN  /\ 0 <= cp.lastAgentLoopStartIdx
            /\ cp.lastAgentLoopStartIdx <= cp.lastAgentLoopInnerStartIdx
            /\ cp.lastAgentLoopInnerStartIdx < Len(messages[a])
            /\ ShiftContextPruning(messages[a], cp).status # "assert"
            /\ IsTextOnlyUser(ToJSON(At(messages[a], cp.lastAgentLoopStartIdx)))
            /\ cp.lastAgentLoopInnerStartIdx > cp.lastAgentLoopStartIdx =>
                   LET m == ToJSON(At(messages[a], cp.lastAgentLoopInnerStartIdx))
                   IN  m.role = "agent" /\ HasToolUse(m)

\* The engine checks a slice again after the cursor advanced to a tool_use
\* message further on than the one next to the loop start.
CursorWellFormedWitness ==
    \E a \in Agents :
        /\ pc[a] = "render"
        /\ contextPruning[a].lastAgentLoopInnerStartIdx >
               contextPruning[a].lastAgentLoopStartIdx
        /\ contextPruning[a].lastAgentLoopInnerStartIdx + 1 < Len(messages[a])
        /\ HasToolUse(ToJSON(At(messages[a],
                                 contextPruning[a].lastAgentLoopStartIdx + 1)))

(***************************************************************************)
(* The engine under fair scheduling of renderForModel: model.tokens        *)
(* returns, and the loop's next step is then taken.                        *)
(***************************************************************************)
RenderStep(a) ==
    (RenderTokensError(a) \/ RenderFits(a) \/ RenderExceeds(a)) /\ EngineOnly

RenderFairSpec == Spec /\ \A a \in EngineAgents : WF_vars(RenderStep(a))

(***************************************************************************)
(* C37  The loop of renderForModel terminates: every successful advance    *)
(* of the cursor strictly increases innerStart, keeps it below the number  *)
(* of messages and strictly shrinks the slice rendered next, so that after *)
(* at most as many advances as the log has messages the slice fits or the  *)
(* tick returns the overflow error; and the loop is always left.           *)
(***************************************************************************)
\* The number of messages of the slice the engine of agent a renders.
SliceLength(msgs, cp) == Cardinality(KeptIndices(msgs, cp))

RenderLoopTerminates ==
    /\ [][\A a \in Agents : (AdvanceStep(a) /\ pc'[a] = "render") =>
             /\ messages'[a] = messages[a]
             /\ contextPruning'[a].lastAgentLoopInnerStartIdx >
                    contextPruning[a].lastAgentLoopInnerStartIdx
             /\ contextPruning'[a].lastAgentLoopInnerStartIdx < Len(messages[a])
             /\ SliceLength(messages[a], contextPruning'[a]) <
                    SliceLength(messages[a], contextPruning[a])]_vars
    /\ \A a \in EngineAgents : (pc[a] = "render") ~> (pc[a] # "render")

\* The loop was left with the overflow error after the cursor had advanced.
RenderLoopTerminatesWitness ==
    \E a \in Agents :
        /\ pc[a] = "idle"
        /\ tick[a].result = "agent_loop_overflow_error"
        /\ contextPruning[a].lastAgentLoopInnerStartIdx > 0

(***************************************************************************)
(* C38  Cache coherence: between ticks, after every outcome of a tick,     *)
(* the list of messages an engine holds in memory is the persisted log of  *)
(* its (run, agent) in position order, given that the engine is the only   *)
(* writer of that log; and an engine that was built and has run no tick    *)
(* holds the persisted log with both cursor indices 0.                     *)
(***************************************************************************)
\* The persisted rows of agent a of the run.
StoredRowsOf(a) ==
    {store[k] : k \in {j \in DOMAIN store :
                           store[j].run = TheRun.id /\ store[j].agent = a}}

\* The list holds the rows of the set, each once, by increasing position.
IsInPositionOrder(list, rows) ==
    /\ {list[i] : i \in DOMAIN list} = rows
    /\ Len(list) = Cardinality(rows)
    /\ \A i, j \in DOMAIN list : i < j => list[i].position < list[j].position

CacheCoherence ==
    \A a \in Agents : pc[a] = "idle" =>
        /\ IsInPositionOrder(messages[a], StoredRowsOf(a))
        /\ tick[a] = NoTick => contextPruning[a] = InitialCursor

\* The engine of one agent is between ticks, its last tick having appended
\* to a log that it read when it was built, while the log of another agent
\* has grown too.
CacheCoherenceWitness ==
    \E a, b \in Agents :
        /\ a # b
        /\ pc[a] = "idle"
        /\ tick[a].result = "ok"
        /\ Len(messages[a]) > Len(tick[a].before)
        /\ Len(tick[a].before) >= 2
        /\ Cardinality(StoredRowsOf(b)) > 2

(***************************************************************************)
(* C39  Persistence order within a tick: the assistant message is          *)
(* persisted only after every tool invocation of its turn has returned;    *)
(* the tool-result message is persisted after it, at the next position;    *)
(* and no message of the agent is appended while a model call or a tool    *)
(* call of that tick is in flight.                                         *)
(***************************************************************************)
\* The rows of agent a that the step appends to the store.
AppendedRows(a) ==
    {store'[k] : k \in {j \in DOMAIN store' :
                            j > Len(store) /\ store'[j].agent = a}}

\* A call of model.tokens, model.generate or executeTool of agent a's tick
\* has not returned.
CallInFlight(a) == pc[a] \in {"render", "generate", "tools"}

PersistenceOrder ==
    [][\A a \in Agents : \A row \in AppendedRows(a) :
          /\ ~CallInFlight(a)
          /\ row.role = "agent" =>
                 /\ Len(tick[a].toolState) =
                        Len(BlocksOfType(row.content, "tool_use"))
                 /\ \A i \in DOMAIN tick[a].toolState :
                        tick[a].toolState[i] = "done"
          /\ BlocksOfType(row.content, "tool_result") # << >> =>
                 \E k \in DOMAIN store :
                     /\ store[k].agent = a
                     /\ store[k].role = "agent"
                     /\ store[k].position + 1 = row.position
                     /\ Len(BlocksOfType(store[k].content, "tool_use")) =
                            Len(row.content)
                     /\ \A r \in DOMAIN row.content :
                            \E u \in DOMAIN store[k].content :
                                /\ store[k].content[u].type = "tool_use"
                                /\ store[k].content[u].id =
                                       row.content[r].toolUseId]_vars

\* A tick has persisted the assistant message of a turn of two tool_use
\* blocks and, at the next position, the message of their two results.
PersistenceOrderWitness ==
    \E a \in Agents :
        /\ pc[a] = "idle"
        /\ tick[a].result = "ok"
        /\ Len(messages[a]) >= 3
        /\ Len(BlocksOfType(Last(messages[a]).content, "tool_result")) = 2
        /\ Len(BlocksOfType(messages[a][Len(messages[a]) - 1].content,
                            "tool_use")) = 2
        /\ Last(messages[a]).position =
               messages[a][Len(messages[a]) - 1].position + 1

============================================================================
